---- MODULE Spec2Model ----
(***************************************************************************)
(* speedy-vault: the object/file metadata engine (CreateObject,            *)
(* ReplaceObject, DeduplicateOrCreateFile, GetObjectByKey), the upload     *)
(* handler BucketUpload and the download handler ObjectDownload, with the  *)
(* metadata store (tables files and objects, one write transaction at a    *)
(* time) and the blob directory <dataDir>/<bucketId>/objects/<uid>.        *)
(***************************************************************************)
EXTENDS Integers, Sequences, FiniteSets, TLC

VARIABLES
    env,        \* the requests the clients send (fixed at the start)
    files,      \* committed rows of table files
    objects,    \* committed rows of table objects
    tx,         \* the open write transaction: its owner and its working tables
    disk,       \* blob directory: path <<bucketId, uid>> -> bytes
    uploads,    \* number of uploads started so far (source of fresh uids)
    proc,       \* per worker: the request it serves and the handler's locals
    hist        \* history: the body of the last committed PUT per <<bucket, key>>,
                \* and the blob paths of the files rows that ReplaceObject deleted

vars == <<env, files, objects, tx, disk, uploads, proc, hist>>

----------------------------------------------------------------------------
(* Bounds and inputs *)

MaxUploads == 3

Procs == {1, 2}
Buckets == {1, 2}
Keys == {"a", "b"}

None == "none"

----------------------------------------------------------------------------
(* Configuration: config.AppConfig *)

UploadStreamingChunkSize == 2
MaxSinglePartSize == 2

----------------------------------------------------------------------------
(* handlers/constants *)

ObjectCreate == 1
ObjectUpdate == 2
ObjectDelete == 4
ObjectRead == 8
ObjectFlagBoundary_ == 16
ObjectOperationFlagsAll == ObjectFlagBoundary_ - 1
ObjectAPIKeyAccess == 16

AllowPublic == "AllowPublic"
AllowSigned == "AllowSigned"
DenyAll == "DenyAll"

RECURSIVE BitAnd(_, _)
BitAnd(x, y) ==
    IF x = 0 \/ y = 0 THEN 0
    ELSE (IF x % 2 = 1 /\ y % 2 = 1 THEN 1 ELSE 0) + 2 * BitAnd(x \div 2, y \div 2)

HasRequired(flags, requiredFlags) == BitAnd(requiredFlags, flags) # requiredFlags

HasAnyMutant(flags, anyFlags) == TRUE

HasAny(flags, anyFlags) == BitAnd(anyFlags, flags) # 0

----------------------------------------------------------------------------
(* Bucket snapshot: access rules in priority order (regex as the set of    *)
(* keys it matches) and the blob path of a uid.                            *)

AccessRules(bucket) ==
    IF bucket = 1 THEN << [Regex |-> {"b"}, Action |-> AllowPublic] >>
    ELSE << [Regex |-> {"b"}, Action |-> DenyAll],
            [Regex |-> {"a", "b"}, Action |-> AllowSigned] >>

(* The loop of GetKeyAccessCondition over the snapshot's rule list *)
KeyAccessCondition(rules, key) ==
    LET hits == {i \in 1..Len(rules) : key \in rules[i].Regex}
    IN IF hits = {} THEN AllowSigned
       ELSE rules[CHOOSE i \in hits : \A j \in hits : i <= j].Action

GetKeyAccessCondition(bucket, key) == KeyAccessCondition(AccessRules(bucket), key)

GetObjectPath(bucket, objectId) == <<bucket, objectId>>

----------------------------------------------------------------------------
(* The blob directory *)

Exists(path) == path \in DOMAIN disk

OsCreate(d, path) ==
    [x \in DOMAIN d \cup {path} |-> IF x = path THEN <<>> ELSE d[x]]

OsWrite(d, path, bytes) ==
    [x \in DOMAIN d |-> IF x = path THEN d[x] \o bytes ELSE d[x]]

OsRemove(d, path) == [x \in DOMAIN d \ {path} |-> d[x]]

----------------------------------------------------------------------------
(* Machine integers and handlers.Misc. Widths are scaled down: uint64 has   *)
(* Uint64Bits bits, uint32 has Uint32Bits bits and int64 is the             *)
(* two's-complement reading of a uint64.                                    *)

Uint64Bits == 6
Uint32Bits == 4

Uint64(n) == n % (2 ^ Uint64Bits)
Uint32(n) == n % (2 ^ Uint32Bits)
Int64(n) ==
    LET u == n % (2 ^ Uint64Bits)
    IN IF u >= 2 ^ (Uint64Bits - 1) THEN u - 2 ^ Uint64Bits ELSE u

(* config.AppConfig.SignatureClockSkewMs *)
SignatureClockSkewMs == 2

Digits == <<"0", "1", "2", "3", "4", "5", "6", "7", "8", "9">>
IsDigit(c) == \E d \in 1..10 : Digits[d] = c
DigitValue(c) == (CHOOSE d \in 1..10 : Digits[d] = c) - 1

RECURSIVE Btoui64Loop(_, _)
Btoui64Loop(value, count) ==
    IF value = << >> THEN [count |-> count, err |-> FALSE]
    ELSE IF ~IsDigit(Head(value)) THEN [count |-> 0, err |-> TRUE]
    ELSE Btoui64Loop(Tail(value), Uint64(count * 10 + DigitValue(Head(value))))

Btoui64(value) ==
    IF Len(value) = 0 THEN [count |-> 0, err |-> TRUE]
    ELSE Btoui64Loop(value, 0)

RECURSIVE FormatUint(_)
FormatUint(n) ==
    IF n < 10 THEN <<Digits[n + 1]>>
    ELSE FormatUint(n \div 10) \o <<Digits[(n % 10) + 1]>>

GenerateUnsatisfiableRangedHeader(size) == <<"bytes */">> \o FormatUint(size)

GenerateRangedHeader(size, startByte, length) ==
    <<"bytes ">> \o FormatUint(startByte) \o <<"-">>
        \o FormatUint(Uint64(startByte + length - 1)) \o <<"/">> \o FormatUint(size)

BytesPrefix == <<"b", "y", "t", "e", "s", "=">>

HasPrefix(s, prefix) ==
    Len(s) >= Len(prefix) /\ SubSeq(s, 1, Len(prefix)) = prefix

(* bytes.Split(s, "-"): the pieces between the separators *)
RECURSIVE Split(_, _)
Split(s, piece) ==
    IF s = << >> THEN <<piece>>
    ELSE IF Head(s) = "-" THEN <<piece>> \o Split(Tail(s), << >>)
    ELSE Split(Tail(s), Append(piece, Head(s)))

RangeInvalid ==
    [err |-> "invalid", Start |-> 0, Length |-> 0, ContentRangeHeader |-> << >>]
RangeUnsatisfiable(size) ==
    [err |-> "unsatisfiable", Start |-> 0, Length |-> 0,
     ContentRangeHeader |-> GenerateUnsatisfiableRangedHeader(size)]
RangeOf(size, start, length) ==
    [err |-> "nil", Start |-> start, Length |-> length,
     ContentRangeHeader |-> GenerateRangedHeader(size, start, length)]

ParseRangeHeader(header, size) ==
    IF ~HasPrefix(header, BytesPrefix) THEN RangeInvalid
    ELSE
    LET values == Split(SubSeq(header, 7, Len(header)), << >>)
    IN IF Len(values) # 2 THEN RangeInvalid
       ELSE
       LET startIncluded == Len(values[1]) # 0
           endIncluded == Len(values[2]) # 0
           startIndex == Btoui64(values[1])
           endIndex == Btoui64(values[2])
       IN IF startIncluded /\ endIncluded
          THEN IF startIndex.err \/ endIndex.err THEN RangeInvalid
               ELSE IF \/ startIndex.count > endIndex.count
                       \/ startIndex.count >= size
                       \/ endIndex.count >= size
               THEN RangeUnsatisfiable(size)
               ELSE RangeOf(size, startIndex.count,
                            Uint64(1 + endIndex.count - startIndex.count))
          ELSE IF startIncluded
          THEN IF startIndex.err THEN RangeInvalid
               ELSE IF startIndex.count >= size THEN RangeUnsatisfiable(size)
               ELSE RangeOf(size, startIndex.count, Uint64(size - startIndex.count))
          ELSE IF endIncluded
          THEN IF endIndex.err THEN RangeInvalid
               ELSE IF endIndex.count = 0 \/ endIndex.count > size
               THEN RangeUnsatisfiable(size)
               ELSE RangeOf(size, Uint64(size - endIndex.count), endIndex.count)
          ELSE RangeInvalid

----------------------------------------------------------------------------
(* BLAKE3 digest: a collision-free function of the hashed bytes *)

Blake3(bytes) == <<"blake3", bytes>>

----------------------------------------------------------------------------
(* The metadata store.  A write transaction (BEGIN IMMEDIATE) works on its  *)
(* own copy of the tables; COMMIT publishes the copy, ROLLBACK drops it.    *)
(* Readers outside a transaction see the committed tables.                  *)

NoTx == [owner |-> 0, files |-> {}, objects |-> {}]

RollbackMutant(committed, working) == working

Commit(committed, working) == working

Rollback(committed, working) == committed

(* handlers/file.go: the sub-select of the refcount UPDATE *)
FileMatchesMutant(f, digest, size) == FALSE

FileMatches(f, digest, size) == f.digest = digest /\ f.size = size

IncrementRefCountMutant(f) == f

IncrementRefCount(f) == [f EXCEPT !.refCount = @ + 1]

(* The outcomes of DeduplicateOrCreateFile on the files table fs: LIMIT 1   *)
(* takes any one of the matching rows.                                      *)
DeduplicateOrCreateFile(fs, bucket, objectUid, digest, size, newId) ==
    LET matches == {f \in fs : FileMatches(f, digest, size)}
    IN IF matches # {}
       THEN {[files |-> (fs \ {f}) \cup {IncrementRefCount(f)},
              fileId |-> f.id, isNew |-> FALSE] : f \in matches}
       ELSE {[files |-> fs \cup {[id |-> newId, bucketId |-> bucket,
                                  digest |-> digest, size |-> size,
                                  refCount |-> 1, uid |-> objectUid]},
              fileId |-> newId, isNew |-> TRUE]}

ObjectKeyTakenMutant(objs, bucket, key) == FALSE

(* objects: UNIQUE (bucket_id, key) *)
ObjectKeyTaken(objs, bucket, key) ==
    \E o \in objs : o.bucketId = bucket /\ o.key = key

InsertObject(objs, id, bucket, fileId, key, mime) ==
    objs \cup {[id |-> id, bucketId |-> bucket, fileId |-> fileId,
                key |-> key, contentTypeMime |-> mime]}

SelectObjectsForReplaceMutant(objs, bucket, key) == objs

SelectNothingMutant(objs, bucket, key) == {}

(* ReplaceObject: SELECT id,file_id FROM objects WHERE key = ? *)
SelectObjectsForReplace(objs, bucket, key) == {o \in objs : o.key = key}

(* UPDATE objects SET file_id = ?, content_type_mime = ? WHERE id = ? *)
UpdateObject(objs, rowId, fileId, mime) ==
    {IF o.id = rowId THEN [o EXCEPT !.fileId = fileId, !.contentTypeMime = mime] ELSE o
        : o \in objs}

DecrementRefCount(f) == [f EXCEPT !.refCount = @ - 1]

ReachedZeroMutant(prevRefCount) == prevRefCount <= 1

ReachedZero(prevRefCount) == prevRefCount = 0

(* ReplaceObject after its SELECT, on the working tables: the file for the  *)
(* new content, the object's file pointer swapped, the previous file's      *)
(* refcount decremented and its row deleted at zero.  ok is FALSE when a    *)
(* statement fails (the previous file row is missing).                      *)
SwapFile(fs, objs, o, bucket, objectUid, digest, size, mime) ==
    {LET prev == {f \in d.files : f.id = o.fileId}
         f == DecrementRefCount(CHOOSE x \in prev : TRUE)
     IN IF prev = {}
        THEN [ok |-> FALSE, files |-> fs, objects |-> objs,
              isNew |-> d.isNew, orphanedFileUid |-> 0]
        ELSE IF ReachedZero(f.refCount)
        THEN [ok |-> TRUE, files |-> d.files \ prev,
              objects |-> UpdateObject(objs, o.id, d.fileId, mime),
              isNew |-> d.isNew, orphanedFileUid |-> f.uid]
        ELSE [ok |-> TRUE, files |-> (d.files \ prev) \cup {f},
              objects |-> UpdateObject(objs, o.id, d.fileId, mime),
              isNew |-> d.isNew, orphanedFileUid |-> 0]
     : d \in DeduplicateOrCreateFile(fs, bucket, objectUid, digest, size, objectUid)}

(* GetObjectByKey: objects INNER JOIN files, on the committed tables *)
GetObjectByKey(bucket, key) ==
    {[id |-> of[1].id, ContentTypeMime |-> of[1].contentTypeMime, Key |-> of[1].key,
      File |-> [id |-> of[2].id, Digest |-> of[2].digest, Size |-> of[2].size,
                UID |-> of[2].uid]] :
        of \in {xy \in objects \X files :
                    xy[1].key = key /\ xy[1].bucketId = bucket /\ xy[1].fileId = xy[2].id}}

----------------------------------------------------------------------------
(* Workers.  Each serves one request at a time; the record holds the        *)
(* request and the locals of the handler that serves it.                    *)

(* A GET without If-None-Match, Range and If-Range *)
NoHeaders == [IfNoneMatch |-> << >>, Range |-> << >>, IfRange |-> << >>]

Idle ==
    [pc |-> "idle", kind |-> None, bucket |-> 0, key |-> None, body |-> <<>>,
     access |-> 0, mime |-> None, objectId |-> 0, bytesReceived |-> 0,
     hasher |-> <<>>, isNew |-> FALSE, orphanedFileUid |-> 0,
     objectCreateError |-> None, objectUpdateError |-> None,
     status |-> 0, connClose |-> FALSE, retryAfter |-> FALSE,
     File |-> None, sent |-> <<>>,
     committed |-> FALSE, expect |-> None, stale |-> FALSE,
     headers |-> NoHeaders, ETag |-> << >>, CacheControl |-> "",
     ContentRange |-> << >>, readStartByte |-> 0, readLength |-> 0,
     opened |-> FALSE]

Conflict == "ObjectOperationConflictError"
Failure == "error"

(* The clients of the engine: uploads that reach CreateObject (capability   *)
(* ObjectUpdate) or ReplaceObject (capability ObjectCreate), downloads that *)
(* pass the access gate.                                                    *)
EngineEnv ==
    [targets |-> {<<1, "a">>, <<1, "b">>, <<2, "a">>},
     bodies |-> {<<1>>, <<2, 2>>},
     mimes |-> {None},
     shortReads |-> FALSE,
     uploadAccess |-> {ObjectCreate, ObjectUpdate},
     getAccess |-> {0},
     getHeaders |-> {NoHeaders}]

InitStore ==
    /\ files = {}
    /\ objects = {}
    /\ tx = NoTx
    /\ disk = << >>
    /\ uploads = 0
    /\ proc = [p \in Procs |-> Idle]
    /\ hist = [lastPut |-> [bk \in Buckets \X Keys |-> None], orphaned |-> {}]

Init == env = EngineEnv /\ InitStore

Set(p, rec) == proc' = [proc EXCEPT ![p] = rec]

(* A new connection is served by the first idle worker *)
Accepts(p) ==
    /\ proc[p].pc = "idle"
    /\ \A q \in Procs : q < p => proc[q].pc # "idle"

(* As Set, at the COMMIT of a PUT to <<bucket, key>>: a download of that    *)
(* key that has looked its object up and not yet answered is overtaken.     *)
SetCommitted(p, rec, bucket, key) ==
    proc' = [q \in Procs |->
                IF q = p THEN rec
                ELSE IF proc[q].pc = "getOpen" /\ proc[q].bucket = bucket
                        /\ proc[q].key = key
                     THEN [proc[q] EXCEPT !.stale = TRUE]
                     ELSE proc[q]]

(* The response is complete: status and headers are set, the handler returns *)
Respond(r, status) ==
    [Idle EXCEPT !.pc = "done", !.status = status,
                 !.kind = r.kind, !.bucket = r.bucket, !.key = r.key,
                 !.body = r.body, !.access = r.access, !.objectId = r.objectId,
                 !.objectCreateError = r.objectCreateError,
                 !.objectUpdateError = r.objectUpdateError,
                 !.committed = r.committed, !.expect = r.expect, !.stale = r.stale,
                 !.headers = r.headers, !.File = r.File, !.ETag = r.ETag,
                 !.CacheControl = r.CacheControl, !.ContentRange = r.ContentRange,
                 !.readStartByte = r.readStartByte, !.readLength = r.readLength,
                 !.opened = r.opened]

RespondClose(r, status) == [Respond(r, status) EXCEPT !.connClose = TRUE]

ObjectFilePath(r) == GetObjectPath(r.bucket, r.objectId)

AfterCreateMutant(r) == "upFail"

(* BucketUpload, where the metadata dispatch goes after CreateObject was    *)
(* skipped or returned the conflict error.                                   *)
AfterCreate(r) ==
    IF HasRequired(r.access, ObjectUpdate) THEN "ReplaceObject" ELSE "upFinish"

Dispatch(r) ==
    IF HasRequired(r.access, ObjectCreate) THEN "CreateObject" ELSE AfterCreate(r)

----------------------------------------------------------------------------
(* BucketUpload: authorization result to the created blob file *)

StartUpload(p) ==
    /\ Accepts(p)
    /\ uploads < MaxUploads
    /\ uploads' = uploads + 1
    /\ \E target \in env.targets, body \in env.bodies,
          access \in env.uploadAccess, mime \in env.mimes :
        LET bucket == target[1]
            key == target[2]
            r == [Idle EXCEPT !.kind = "PUT", !.bucket = bucket, !.key = key,
                              !.body = body, !.access = access, !.mime = mime]
        IN IF ~HasAny(access, ObjectCreate + ObjectUpdate)
           THEN /\ Set(p, RespondClose(r, 401))
                /\ UNCHANGED disk
           ELSE IF GetKeyAccessCondition(bucket, key) = DenyAll
                   /\ ~HasRequired(access, ObjectAPIKeyAccess)
           THEN /\ Set(p, RespondClose(r, 403))
                /\ UNCHANGED disk
           ELSE \/ /\ disk' = OsCreate(disk, GetObjectPath(bucket, uploads'))
                   /\ Set(p, [r EXCEPT !.pc = "stream", !.objectId = uploads'])
                \/ /\ Set(p, RespondClose([r EXCEPT !.objectId = uploads'], 500))
                   /\ UNCHANGED disk
    /\ UNCHANGED <<env, files, objects, tx, hist>>

(* One iteration of the receive loop: stream.Read, the size check,          *)
(* file.Write and hasher.Write; at end of stream file.Close and the         *)
(* dispatch on the capabilities.  A Read returns up to a buffer of bytes,   *)
(* and the end of the stream with the last bytes or after them; unless      *)
(* env.shortReads, every Read fills the buffer as far as the body goes.     *)
Min(a, b) == IF a < b THEN a ELSE b

(* The size test of the receive loop *)
ExceedsSinglePartMutant(bytesReceived) == bytesReceived >= MaxSinglePartSize

ExceedsSinglePart(bytesReceived) == bytesReceived > MaxSinglePartSize

SubSeqFrom(s, from, n) == SubSeq(s, from + 1, from + n)

UploadRead(p) ==
    LET r == proc[p]
        remaining == Len(r.body) - r.bytesReceived
    IN
    /\ r.pc = "stream"
    /\ UNCHANGED <<env, files, objects, tx, uploads, hist>>
    /\ \/ \* stream.Read fails, or file.Write fails
          /\ disk' = OsRemove(disk, ObjectFilePath(r))
          /\ Set(p, RespondClose(r, 500))
       \/ \E bytesRead \in 0..Min(UploadStreamingChunkSize, remaining), eof \in BOOLEAN :
          /\ eof => bytesRead = remaining
          /\ eof \/ bytesRead > 0
          /\ env.shortReads
                \/ (bytesRead = Min(UploadStreamingChunkSize, remaining)
                     /\ eof = (bytesRead = remaining))
          /\ LET received == r.bytesReceived + bytesRead
                 bufferSlice == SubSeqFrom(r.body, r.bytesReceived, bytesRead)
                 r2 == [r EXCEPT !.bytesReceived = received,
                                 !.hasher = @ \o bufferSlice]
             IN IF ExceedsSinglePart(received)
                THEN /\ disk' = OsRemove(disk, ObjectFilePath(r))
                     /\ Set(p, RespondClose([r EXCEPT !.bytesReceived = received], 413))
                ELSE /\ disk' = OsWrite(disk, ObjectFilePath(r), bufferSlice)
                     /\ Set(p, IF eof THEN [r2 EXCEPT !.pc = Dispatch(r2)] ELSE r2)

----------------------------------------------------------------------------
(* CreateObject *)

Digest(r) == Blake3(r.hasher)

(* BEGIN IMMEDIATE, DeduplicateOrCreateFile and the INSERT INTO objects; on *)
(* the constraint error ROLLBACK and the conflict error, which sends        *)
(* BucketUpload on to ReplaceObject or to its end.                          *)
CoTransact(p) ==
    LET r == proc[p] IN
    /\ r.pc = "CreateObject"
    /\ tx.owner = 0
    /\ \E d \in DeduplicateOrCreateFile(files, r.bucket, r.objectId,
                                        Digest(r), r.bytesReceived, r.objectId) :
        IF ObjectKeyTaken(objects, r.bucket, r.key)
        THEN /\ files' = Rollback(files, d.files)
             /\ objects' = Rollback(objects, objects)
             /\ tx' = NoTx
             /\ Set(p, [r EXCEPT !.pc = AfterCreate(r), !.objectCreateError = Conflict])
        ELSE /\ tx' = [owner |-> p, files |-> d.files,
                       objects |-> InsertObject(objects, r.objectId, r.bucket,
                                                d.fileId, r.key, r.mime)]
             /\ Set(p, [r EXCEPT !.pc = "coCommit", !.isNew = d.isNew])
             /\ UNCHANGED <<files, objects>>
    /\ UNCHANGED <<env, disk, uploads, hist>>

(* BEGIN IMMEDIATE while another connection holds the write lock: busy *)
CoBusy(p) ==
    LET r == proc[p] IN
    /\ r.pc = "CreateObject"
    /\ tx.owner # 0
    /\ Set(p, [r EXCEPT !.pc = "upFail", !.objectCreateError = Failure])
    /\ UNCHANGED <<env, files, objects, tx, disk, uploads, hist>>

(* Where CreateObject goes once COMMIT has succeeded *)
RemovesCandidateMutant(isNew) == TRUE

RemovesCandidate(isNew) == ~isNew

CoCommit(p) ==
    LET r == proc[p] IN
    /\ r.pc = "coCommit"
    /\ tx.owner = p
    /\ \/ /\ files' = Commit(files, tx.files)
          /\ objects' = Commit(objects, tx.objects)
          /\ tx' = NoTx
          /\ hist' = [hist EXCEPT !.lastPut[<<r.bucket, r.key>>] = r.body]
          /\ SetCommitted(p, IF RemovesCandidate(r.isNew)
                             THEN [r EXCEPT !.pc = "coRemove", !.committed = TRUE]
                             ELSE [Respond(r, 201) EXCEPT !.committed = TRUE],
                          r.bucket, r.key)
       \/ /\ files' = Rollback(files, tx.files)
          /\ objects' = Rollback(objects, tx.objects)
          /\ tx' = NoTx
          /\ Set(p, [r EXCEPT !.pc = "upFail", !.objectCreateError = Failure])
          /\ UNCHANGED hist
    /\ UNCHANGED <<env, disk, uploads>>

(* os.Remove of the redundant candidate blob, then 201 *)
CoRemove(p) ==
    LET r == proc[p] IN
    /\ r.pc = "coRemove"
    /\ disk' = OsRemove(disk, GetObjectPath(r.bucket, r.objectId))
    /\ Set(p, Respond(r, 201))
    /\ UNCHANGED <<env, files, objects, tx, uploads, hist>>

----------------------------------------------------------------------------
(* ReplaceObject *)

(* BEGIN IMMEDIATE and the statements up to COMMIT.  QueryRow scans the     *)
(* first row of the SELECT, any of the rows with this key; no row is the    *)
(* conflict error after ROLLBACK.                                           *)
RoTransact(p) ==
    LET r == proc[p]
        rows == SelectObjectsForReplace(objects, r.bucket, r.key)
    IN
    /\ r.pc = "ReplaceObject"
    /\ tx.owner = 0
    /\ IF rows = {}
       THEN /\ files' = Rollback(files, files)
            /\ objects' = Rollback(objects, objects)
            /\ tx' = NoTx
            /\ Set(p, [r EXCEPT !.pc = "upFinish", !.objectUpdateError = Conflict])
       ELSE \E o \in rows :
            \E w \in SwapFile(files, objects, o, r.bucket, r.objectId,
                              Digest(r), r.bytesReceived, r.mime) :
               IF w.ok
               THEN /\ tx' = [owner |-> p, files |-> w.files, objects |-> w.objects]
                    /\ Set(p, [r EXCEPT !.pc = "roCommit", !.isNew = w.isNew,
                                        !.orphanedFileUid = w.orphanedFileUid])
                    /\ UNCHANGED <<files, objects>>
               ELSE /\ files' = Rollback(files, w.files)
                    /\ objects' = Rollback(objects, w.objects)
                    /\ tx' = NoTx
                    /\ Set(p, [r EXCEPT !.pc = "upFail", !.objectUpdateError = Failure])
    /\ UNCHANGED <<env, disk, uploads, hist>>

RoBusy(p) ==
    LET r == proc[p] IN
    /\ r.pc = "ReplaceObject"
    /\ tx.owner # 0
    /\ Set(p, [r EXCEPT !.pc = "upFail", !.objectUpdateError = Failure])
    /\ UNCHANGED <<env, files, objects, tx, disk, uploads, hist>>

(* The blob paths of the files rows that a transaction deleted *)
DeletedBlobs(before, after) ==
    {GetObjectPath(f.bucketId, f.uid) :
        f \in {x \in before : ~\E y \in after : y.id = x.id}}

(* The deferred function registered with the DELETE of the previous file:   *)
(* it runs on every later return and removes the blob when errReturn is nil *)
DeferredRemovesMutant(orphanedFileUid, errReturn) == orphanedFileUid # 0

DeferredRemoves(orphanedFileUid, errReturn) ==
    orphanedFileUid # 0 /\ errReturn = None

(* ReplaceObject returns errReturn: the deferred removal, then BucketUpload *)
RoReturn(r, errReturn) ==
    IF DeferredRemoves(r.orphanedFileUid, errReturn)
    THEN [r EXCEPT !.pc = "roOrphan", !.objectUpdateError = errReturn]
    ELSE IF errReturn = None THEN Respond(r, 200)
    ELSE [r EXCEPT !.pc = "upFail", !.objectUpdateError = errReturn]

RoCommit(p) ==
    LET r == proc[p] IN
    /\ r.pc = "roCommit"
    /\ tx.owner = p
    /\ \/ /\ files' = Commit(files, tx.files)
          /\ objects' = Commit(objects, tx.objects)
          /\ tx' = NoTx
          /\ hist' = [hist EXCEPT !.lastPut[<<r.bucket, r.key>>] = r.body,
                                  !.orphaned = @ \cup DeletedBlobs(files, tx.files)]
          /\ SetCommitted(p, IF RemovesCandidate(r.isNew)
                             THEN [r EXCEPT !.pc = "roRemove", !.committed = TRUE]
                             ELSE RoReturn([r EXCEPT !.committed = TRUE], None),
                          r.bucket, r.key)
       \/ /\ files' = Rollback(files, tx.files)
          /\ objects' = Rollback(objects, tx.objects)
          /\ tx' = NoTx
          /\ Set(p, RoReturn(r, Failure))
          /\ UNCHANGED hist
    /\ UNCHANGED <<env, disk, uploads>>

(* os.Remove of the redundant candidate blob, then return nil *)
RoRemove(p) ==
    LET r == proc[p] IN
    /\ r.pc = "roRemove"
    /\ disk' = OsRemove(disk, GetObjectPath(r.bucket, r.objectId))
    /\ Set(p, RoReturn(r, None))
    /\ UNCHANGED <<env, files, objects, tx, uploads, hist>>

(* The deferred os.Remove of the orphaned blob *)
RoOrphan(p) ==
    LET r == proc[p] IN
    /\ r.pc = "roOrphan"
    /\ disk' = OsRemove(disk, GetObjectPath(r.bucket, r.orphanedFileUid))
    /\ Set(p, IF r.objectUpdateError = None THEN Respond(r, 200)
              ELSE [r EXCEPT !.pc = "upFail"])
    /\ UNCHANGED <<env, files, objects, tx, uploads, hist>>

----------------------------------------------------------------------------
(* BucketUpload: the ends of the metadata dispatch *)

(* CreateObject or ReplaceObject returned an error other than the conflict *)
UpFail(p) ==
    LET r == proc[p] IN
    /\ r.pc = "upFail"
    /\ disk' = OsRemove(disk, ObjectFilePath(r))
    /\ Set(p, Respond(r, 500))
    /\ UNCHANGED <<env, files, objects, tx, uploads, hist>>

(* Neither operation stored the object *)
UpFinish(p) ==
    LET r == proc[p] IN
    /\ r.pc = "upFinish"
    /\ disk' = OsRemove(disk, ObjectFilePath(r))
    /\ IF r.objectCreateError = Conflict /\ r.objectUpdateError = Conflict
       THEN Set(p, [Respond(r, 503) EXCEPT !.retryAfter = TRUE])
       ELSE Set(p, Respond(r, 401))
    /\ UNCHANGED <<env, files, objects, tx, uploads, hist>>

(* The worker takes the next request *)
Done(p) ==
    /\ proc[p].pc = "done"
    /\ Set(p, Idle)
    /\ UNCHANGED <<env, files, objects, tx, disk, uploads, hist>>

----------------------------------------------------------------------------
(* ObjectDownload *)

(* The strong ETag of a file: its digest in base64url between quotes *)
Base64RawURL(bytes) == <<"base64url", bytes>>
ETagOf(digest) == <<"\"", Base64RawURL(digest), "\"">>

(* The client's copy is current: If-None-Match is the file's ETag *)
NotModifiedMutant(ifNoneMatch, etag) == FALSE

NotModified(ifNoneMatch, etag) == Len(ifNoneMatch) # 0 /\ ifNoneMatch = etag

(* The Range header is looked at: If-Range is absent or is the file's ETag *)
RangeHonouredMutant(ifRange, etag) == TRUE

RangeHonoured(ifRange, etag) == Len(ifRange) = 0 \/ ifRange = etag

(* The access gate, GetObjectByKey, and the conditional and range headers   *)
(* up to os.Open.                                                           *)
StartGet(p) ==
    /\ Accepts(p)
    /\ \E target \in env.targets, access \in env.getAccess, h \in env.getHeaders :
        LET bucket == target[1]
            key == target[2]
            r == [Idle EXCEPT !.kind = "GET", !.bucket = bucket, !.key = key,
                              !.access = access, !.headers = h,
                              !.expect = hist.lastPut[<<bucket, key>>]]
            condition == GetKeyAccessCondition(bucket, key)
            found == GetObjectByKey(bucket, key)
        IN IF condition = DenyAll /\ ~HasRequired(access, ObjectAPIKeyAccess)
           THEN Set(p, Respond(r, 403))
           ELSE IF condition = AllowSigned /\ ~HasRequired(access, ObjectRead)
           THEN Set(p, Respond(r, 401))
           ELSE IF found = {}
           THEN Set(p, Respond(r, 404))
           ELSE \E object \in found :
                LET etag == ETagOf(object.File.Digest)
                    r1 == [r EXCEPT !.File = object.File,
                                    !.mime = object.ContentTypeMime,
                                    !.ETag = etag,
                                    !.CacheControl =
                                        IF condition = AllowPublic
                                        THEN "max-age=360, public"
                                        ELSE "max-age=360, private",
                                    !.readStartByte = 0,
                                    !.readLength = object.File.Size]
                    parsedRange == ParseRangeHeader(h.Range, object.File.Size)
                IN IF NotModified(h.IfNoneMatch, etag)
                   THEN Set(p, Respond(r1, 304))
                   ELSE IF Len(h.Range) # 0 /\ RangeHonoured(h.IfRange, etag)
                   THEN IF parsedRange.err = "nil"
                        THEN Set(p, [r1 EXCEPT
                                 !.pc = "getOpen", !.status = 206,
                                 !.readStartByte = parsedRange.Start,
                                 !.readLength = parsedRange.Length,
                                 !.ContentRange = parsedRange.ContentRangeHeader])
                        ELSE IF parsedRange.err = "unsatisfiable"
                        THEN Set(p, Respond(
                                 [r1 EXCEPT
                                    !.ContentRange = parsedRange.ContentRangeHeader,
                                    !.CacheControl = "no-store"], 416))
                        ELSE Set(p, [r1 EXCEPT !.pc = "getOpen"])
                   ELSE Set(p, [r1 EXCEPT !.pc = "getOpen"])
    /\ UNCHANGED <<env, files, objects, tx, disk, uploads, hist>>

(* os.Open of the blob and the streaming of readLength bytes from           *)
(* readStartByte; a blob that ends before them ends in a read error and a   *)
(* reset connection.                                                        *)
GetOpen(p) ==
    LET r == proc[p]
        path == GetObjectPath(r.bucket, r.File.UID)
        status == IF r.status = 206 THEN 206 ELSE 200
        o == [r EXCEPT !.opened = TRUE]
    IN
    /\ r.pc = "getOpen"
    /\ IF ~Exists(path)
       THEN Set(p, Respond(r, 500))
       ELSE IF Len(disk[path]) < r.readStartByte + r.readLength
       THEN Set(p, [Respond(o, status) EXCEPT
                       !.connClose = TRUE,
                       !.sent = SubSeq(disk[path], r.readStartByte + 1,
                                       Len(disk[path]))])
       ELSE Set(p, [Respond(o, status) EXCEPT
                       !.sent = SubSeq(disk[path], r.readStartByte + 1,
                                       r.readStartByte + r.readLength)])
    /\ UNCHANGED <<env, files, objects, tx, disk, uploads, hist>>

----------------------------------------------------------------------------

Step(p) ==
    \/ StartUpload(p)
    \/ UploadRead(p)
    \/ CoTransact(p)
    \/ CoBusy(p)
    \/ CoCommit(p)
    \/ CoRemove(p)
    \/ RoTransact(p)
    \/ RoBusy(p)
    \/ RoCommit(p)
    \/ RoRemove(p)
    \/ RoOrphan(p)
    \/ UpFail(p)
    \/ UpFinish(p)
    \/ StartGet(p)
    \/ GetOpen(p)
    \/ Done(p)

Next == \E p \in Procs : Step(p)

Spec == Init /\ [][Next]_vars

----------------------------------------------------------------------------
(* Properties of the metadata engine *)

InFlight(r) == r.pc \notin {"idle", "done"}

NoUploadInFlight == \A p \in Procs : proc[p].kind = "PUT" => ~InFlight(proc[p])

Referrers(f) == {o \in objects : o.fileId = f.id}

BlobPath(f) == GetObjectPath(f.bucketId, f.uid)

\* C1: in every committed state, for every files row f the number of objects
\* rows whose fileId is f equals f.refCount.
C1_RefCountEqualsReferences ==
    \A f \in files : Cardinality(Referrers(f)) = f.refCount

\* C1 witness: a ReplaceObject has committed and answered 200 while a file is
\* shared by two objects.
C1_Witness ==
    /\ \E f \in files : f.refCount = 2 /\ Cardinality(Referrers(f)) = 2
    /\ \E p \in Procs : proc[p].pc = "done" /\ proc[p].kind = "PUT" /\ proc[p].status = 200

\* C2: in every committed state every objects row references a files row that
\* exists and whose refCount is at least 1.
C2_ObjectsReferenceLiveFiles ==
    \A o \in objects : \E f \in files : f.id = o.fileId /\ f.refCount >= 1

\* C2 witness: after a committed ReplaceObject that deleted the previous files
\* row, objects rows exist.
C2_Witness ==
    /\ hist.orphaned # {}
    /\ Cardinality(objects) >= 2

\* C3: in every reachable state every files row has a blob on disk at the path
\* built from its bucket and uid, of the row's size.
C3_FilesHaveBlobs ==
    \A f \in files : Exists(BlobPath(f)) /\ Len(disk[BlobPath(f)]) = f.size

\* C3 witness: two uploads are in flight, one of them between the steps of
\* its transaction, while files rows exist.
C3_Witness ==
    /\ files # {}
    /\ \E p, q \in Procs :
        /\ p # q
        /\ tx.owner = p
        /\ proc[q].kind = "PUT" /\ InFlight(proc[q])

\* C4: at most one files row exists for a given (digest, size), and two objects
\* whose files have the same digest and size reference the same fileId.
C4_OneFilePerContent ==
    /\ \A f, g \in files : (f.digest = g.digest /\ f.size = g.size) => f = g
    /\ \A o1, o2 \in objects : \A f, g \in files :
        (f.id = o1.fileId /\ g.id = o2.fileId /\ f.digest = g.digest /\ f.size = g.size)
            => o1.fileId = o2.fileId

\* C4 witness: two uploads of the same content run concurrently; the first
\* has committed its new files row, the second then found that row inside its
\* own transaction instead of inserting another.
C4_Witness ==
    \E p, q \in Procs :
        /\ p # q
        /\ proc[p].pc = "coCommit" /\ tx.owner = p /\ ~proc[p].isNew
        /\ proc[q].pc = "coRemove" \/ (proc[q].pc = "done" /\ proc[q].status = 201)
        /\ proc[q].objectId + 1 = proc[p].objectId
        /\ \E f \in tx.files : f.uid = proc[q].objectId /\ f.refCount >= 2


\* C5: once every create/replace has completed, no files row has refCount 0,
\* the blob of every files row that a ReplaceObject deleted is gone from disk,
\* and the blob of every remaining files row is present.
C5_ReplaceReclaimsBlob ==
    NoUploadInFlight =>
        /\ \A f \in files : f.refCount # 0 /\ Exists(BlobPath(f))
        /\ \A path \in hist.orphaned : ~Exists(path)

EngineRemoval == {"coRemove", "roRemove", "roOrphan"}

InEngine == {"CreateObject", "coCommit", "ReplaceObject", "roCommit"} \cup EngineRemoval

\* C6: CreateObject and ReplaceObject remove a blob only after their COMMIT has
\* succeeded; a failed COMMIT leaves the tables as they were before the
\* transaction and is followed by no removal by the engine.
C6_RemovalOnlyAfterCommit ==
    [][\A p \in Procs :
        LET r == proc[p] IN
        /\ (r.pc \in EngineRemoval) => r.committed
        /\ (r.pc \in InEngine \ EngineRemoval /\ proc'[p] # r) => disk' = disk
        /\ (tx.owner = p /\ tx'.owner = p) => (files' = files /\ objects' = objects)
        /\ (r.pc \in {"coCommit", "roCommit"} /\ proc'[p] # r /\ ~proc'[p].committed)
              => /\ files' = files /\ objects' = objects
                 /\ proc'[p].pc = "upFail"
      ]_vars

\* C6 witness: the COMMIT of a ReplaceObject that had deleted the previous
\* files row failed; the orphaned blob and the candidate blob are on disk.
C6_Witness ==
    \E p \in Procs :
        /\ proc[p].pc = "upFail"
        /\ proc[p].objectUpdateError = Failure
        /\ proc[p].orphanedFileUid # 0
        /\ \E f \in files : f.uid = proc[p].orphanedFileUid /\ Exists(BlobPath(f))
        /\ Exists(ObjectFilePath(proc[p]))

\* C7: a download that passed the access gate, of a key whose last committed
\* PUT had body X and to which no PUT committed since the lookup, answers 200
\* with exactly the bytes X.
C7_GetReturnsLastPut ==
    \A p \in Procs :
        LET r == proc[p] IN
        (r.kind = "GET" /\ r.pc = "done" /\ r.status \notin {401, 403}
            /\ r.expect # None /\ ~r.stale)
        => (r.status = 200 /\ r.sent = r.expect /\ ~r.connClose)

\* C8: whenever no upload is in flight the blobs on disk are exactly the blobs
\* of the files rows, and an upload that ended with a status other than 200 or
\* 201 has no blob at its candidate uid.
C8_DiskMatchesFiles ==
    /\ NoUploadInFlight => DOMAIN disk = {BlobPath(f) : f \in files}
    /\ \A p \in Procs :
        LET r == proc[p] IN
        (r.kind = "PUT" /\ r.pc = "done" /\ r.status \notin {200, 201})
            => ~Exists(ObjectFilePath(r))

\* C9: CreateObject for a (bucket, key) that has an object returns the conflict
\* error, and the objects table, the files table and the disk are after the
\* call what they were before it.
C9_CreateConflictChangesNothing ==
    [][\A p \in Procs :
        LET r == proc[p] IN
        (r.pc = "CreateObject" /\ tx.owner = 0 /\ proc'[p] # r
            /\ ObjectKeyTaken(objects, r.bucket, r.key))
        => /\ proc'[p].objectCreateError = Conflict
           /\ files' = files /\ objects' = objects /\ disk' = disk
           /\ tx' = NoTx
           /\ Exists(ObjectFilePath(r))
      ]_vars

\* C9 witness: CreateObject has returned the conflict error for content that an
\* existing files row already holds (the refCount was incremented inside the
\* rolled-back transaction); the candidate blob is still on disk.
C9_Witness ==
    \E p \in Procs :
        /\ proc[p].objectCreateError = Conflict
        /\ proc[p].pc = "upFinish"
        /\ Exists(ObjectFilePath(proc[p]))
        /\ \E f \in files : FileMatches(f, Digest(proc[p]), proc[p].bytesReceived)

Created(r) == r.objectId # 0 /\ \E o \in objects : o.id = r.objectId

(* The CreateObject call of request r has returned, without a store error *)
ReturnedFromCreate(r) ==
    /\ r.kind = "PUT"
    /\ \/ r.pc = "done" /\ Created(r)
       \/ r.objectCreateError = Conflict

\* C11: of two CreateObject calls for one (bucket, key) that both ran their
\* transaction, at most one commits an objects row and the other returns the
\* conflict error (both do when the key was taken before); afterwards there
\* is one objects row for (bucket, key) and every file's refCount equals the
\* number of objects referring to it.
C11_OneCreateWins ==
    /\ \A o1, o2 \in objects :
          (o1.bucketId = o2.bucketId /\ o1.key = o2.key) => o1 = o2
    /\ \A p, q \in Procs :
        LET r == proc[p]
            s == proc[q]
        IN (p # q /\ ReturnedFromCreate(r) /\ ReturnedFromCreate(s)
                /\ r.bucket = s.bucket /\ r.key = s.key)
           => /\ \/ Created(r) /\ s.objectCreateError = Conflict
                 \/ Created(s) /\ r.objectCreateError = Conflict
                 \/ /\ r.objectCreateError = Conflict
                    /\ s.objectCreateError = Conflict
                    /\ \E o \in objects :
                          /\ o.bucketId = r.bucket /\ o.key = r.key
                          /\ o.id \notin {r.objectId, s.objectId}
              /\ Cardinality({o \in objects :
                                 o.bucketId = r.bucket /\ o.key = r.key}) = 1
              /\ \A f \in files : Cardinality(Referrers(f)) = f.refCount

\* C11 witness: two uploads to one (bucket, key) overlapped; the one that
\* started later has created the object and answered 201, the one that
\* started first got the conflict error.
C11_Witness ==
    \E p, q \in Procs :
        /\ p # q
        /\ proc[p].kind = "PUT" /\ proc[p].pc = "done" /\ proc[p].status = 201
        /\ Created(proc[p])
        /\ proc[q].kind = "PUT" /\ proc[q].objectCreateError = Conflict
        /\ proc[q].bucket = proc[p].bucket /\ proc[q].key = proc[p].key
        /\ proc[q].objectId < proc[p].objectId

----------------------------------------------------------------------------
(* The capability bitset on its own: HasRequired and HasAny applied to       *)
(* every pair of bitsets up to MaxFlags.                                     *)

MaxFlags == 31

FlagsInit ==
    /\ env \in [op : {"flags"}, flags : 0..MaxFlags, other : 0..MaxFlags,
                hasRequired : {<< >>}, hasAny : {<< >>}]
    /\ InitStore

ApplyHasRequired ==
    /\ env.hasRequired = << >>
    /\ env' = [env EXCEPT !.hasRequired = <<HasRequired(env.flags, env.other)>>]
    /\ UNCHANGED <<files, objects, tx, disk, uploads, proc, hist>>

ApplyHasAny ==
    /\ env.hasAny = << >>
    /\ env' = [env EXCEPT !.hasAny = <<HasAny(env.flags, env.other)>>]
    /\ UNCHANGED <<files, objects, tx, disk, uploads, proc, hist>>

FlagsNext == ApplyHasRequired \/ ApplyHasAny

FlagsSpec == FlagsInit /\ [][FlagsNext]_vars

(* The capabilities a bitset holds, as the set of their bit positions *)
BitsOf(x) == {i \in 0..7 : (x \div (2 ^ i)) % 2 = 1}

\* C12: flags.HasRequired(required) is true exactly when every bit of required
\* is set in flags, and flags.HasAny(any) is true exactly when at least one
\* bit of any is set in flags.
C12_FlagTests ==
    /\ env.hasRequired # << >>
          => (env.hasRequired[1] <=> BitsOf(env.other) \subseteq BitsOf(env.flags))
    /\ env.hasAny # << >>
          => (env.hasAny[1] <=> BitsOf(env.other) \cap BitsOf(env.flags) # {})

----------------------------------------------------------------------------
(* One client at a time, with every kind of capability set: none (0), the   *)
(* single capabilities, Create and Update together, and all four (what an   *)
(* API key and a signed URL with acc = 15 yield), on an AllowSigned path     *)
(* (bucket 1, "a"), an AllowPublic path (bucket 1, "b") and a DenyAll path   *)
(* (bucket 2, "b").                                                          *)

GateEnv ==
    [targets |-> {<<1, "a">>, <<1, "b">>, <<2, "b">>},
     bodies |-> {<<1>>, <<2, 2>>},
     mimes |-> {None},
     shortReads |-> FALSE,
     uploadAccess |-> {0, ObjectCreate, ObjectUpdate, ObjectCreate + ObjectUpdate,
                       ObjectRead, ObjectOperationFlagsAll},
     getAccess |-> {0, ObjectCreate, ObjectRead, ObjectOperationFlagsAll},
     getHeaders |-> {NoHeaders}]

GateInit == env = GateEnv /\ InitStore

GateStep(p) ==
    \/ StartUpload(p)
    \/ UploadRead(p)
    \/ CoTransact(p)
    \/ CoCommit(p)
    \/ CoRemove(p)
    \/ RoTransact(p)
    \/ RoCommit(p)
    \/ RoRemove(p)
    \/ RoOrphan(p)
    \/ UpFail(p)
    \/ UpFinish(p)
    \/ Done(p)
    \/ StartGet(p)
    \/ GetOpen(p)

GateNext == GateStep(1)

GateSpec == GateInit /\ [][GateNext]_vars

(* Capability set S contains the capability cap *)
Contains(S, cap) == BitsOf(cap) \subseteq BitsOf(S)

(* The objects row under the key of request r that another request created *)
ExistedBefore(r) ==
    \E o \in objects : o.bucketId = r.bucket /\ o.key = r.key /\ o.id # r.objectId

(* The upload r passed the access gates and met no I/O or store error *)
Served(r) ==
    r.kind = "PUT" /\ r.pc = "done" /\ r.status \notin {403, 413, 500}

\* C13: an authorized upload with capability set S to key K, with no
\* concurrent writer: if S contains ObjectCreate and no object exists under K
\* the object is created and the response is 201; if an object exists under K
\* and S contains ObjectUpdate the object is replaced (it now has the uploaded
\* content) and the response is 200.
C13_UploadDispatch ==
    \A p \in Procs :
        LET r == proc[p] IN
        Served(r) =>
          /\ (Contains(r.access, ObjectCreate) /\ ~ExistedBefore(r))
                => (r.status = 201 /\ Created(r))
          /\ (Contains(r.access, ObjectUpdate) /\ ExistedBefore(r))
                => /\ r.status = 200
                   /\ \E o \in GetObjectByKey(r.bucket, r.key) :
                         o.File.Digest = Blake3(r.body)

\* C14: an upload whose capabilities contain ObjectCreate but not
\* ObjectUpdate never changes an existing objects row (and is never answered
\* 200); one whose capabilities contain ObjectUpdate but not ObjectCreate
\* never creates an objects row (and is never answered 201); when such an
\* upload is served and cannot do its one operation it is answered 401 and
\* its candidate blob is removed.
C14_SingleCapability ==
    [][\A p \in Procs :
        LET r == proc[p]
            after == proc'[p]
            createOnly == Contains(r.access, ObjectCreate)
                            /\ ~Contains(r.access, ObjectUpdate)
            updateOnly == Contains(r.access, ObjectUpdate)
                            /\ ~Contains(r.access, ObjectCreate)
        IN (r.kind = "PUT" /\ r.pc # "done" /\ after # r) =>
            /\ createOnly => /\ \A o \in objects : o \in objects'
                             /\ after.status # 200
            /\ updateOnly => /\ \A o \in objects' : \E o2 \in objects : o2.id = o.id
                             /\ after.status # 201
            /\ ((createOnly \/ updateOnly) /\ after.pc = "done"
                    /\ after.status \notin {200, 201, 403, 413, 500})
                  => /\ after.status = 401
                     /\ ObjectFilePath(after) \notin DOMAIN disk'
      ]_vars

\* C15: an upload whose capability set contains neither ObjectCreate nor
\* ObjectUpdate (the empty set of a request without credentials included) is
\* answered 401 at once: no blob is created and objects and files are
\* unchanged.
C15_NoWriteCapability ==
    [][\A p \in Procs :
        LET r == proc[p]
            after == proc'[p]
        IN (r.pc = "idle" /\ after.kind = "PUT"
              /\ ~Contains(after.access, ObjectCreate)
              /\ ~Contains(after.access, ObjectUpdate))
           => /\ after.pc = "done" /\ after.status = 401
              /\ after.objectId = 0
              /\ disk' = disk /\ files' = files /\ objects' = objects /\ tx' = tx
      ]_vars

\* C15 witness: uploads with the empty capability set and with ObjectRead
\* alone have been answered 401 while the store holds objects.
C15_Witness ==
    \E p \in Procs :
        /\ proc[p].kind = "PUT" /\ proc[p].pc = "done" /\ proc[p].status = 401
        /\ proc[p].access \in {0, ObjectRead}
        /\ proc[p].objectId = 0
        /\ objects # {} /\ disk # << >>

(* What AuthorizeBucketAPIRequest returns for a stored API key, and the     *)
(* values it can return for a verified signed URL (0 < acc < boundary).     *)
APIKeyCapabilities == ObjectOperationFlagsAll

SignedURLCapabilities == 1..(ObjectFlagBoundary_ - 1)

\* C16: on a path whose first matching rule is DenyAll, a GET or PUT that was
\* authenticated by a signed URL is answered 403 (for every acc that reaches
\* the rule gate), while a GET authenticated by an API key is not blocked and
\* returns 200 when the object exists.
C16_DenyAllGate ==
    \A p \in Procs :
        LET r == proc[p] IN
        (r.pc = "done" /\ r.kind \in {"GET", "PUT"}
            /\ GetKeyAccessCondition(r.bucket, r.key) = DenyAll)
        => /\ (r.access \in SignedURLCapabilities \ {APIKeyCapabilities}
                 /\ (r.kind = "PUT" => HasAny(r.access, ObjectCreate + ObjectUpdate)))
               => r.status = 403
           /\ (r.kind = "GET" /\ r.access = APIKeyCapabilities
                 /\ \E o \in GetObjectByKey(r.bucket, r.key) :
                       Exists(GetObjectPath(r.bucket, o.File.UID)))
               => r.status = 200

\* C17: a GET on an AllowSigned path serves the object only if the request's
\* capabilities include ObjectRead and is otherwise answered 401; a GET on an
\* AllowPublic path proceeds to the object lookup for every capability set.
C17_ReadGate ==
    \A p \in Procs :
        LET r == proc[p]
            condition == GetKeyAccessCondition(r.bucket, r.key)
        IN (r.pc = "done" /\ r.kind = "GET") =>
            /\ condition = AllowSigned =>
                  /\ r.status = 200 => Contains(r.access, ObjectRead)
                  /\ ~Contains(r.access, ObjectRead) => r.status = 401
            /\ condition = AllowPublic => r.status \notin {401, 403}

----------------------------------------------------------------------------
(* The access rules on their own: a table bucket_access_rules of up to       *)
(* MaxRules rows with priorities up to MaxPriority, loaded into a snapshot   *)
(* by GetBucketByName and evaluated for a key.                               *)

MaxRules == 2

MaxPriority == 2

RuleTables ==
    UNION {{{[id |-> i, priority |-> t[i].priority, Regex |-> t[i].Regex,
              Action |-> t[i].Action] : i \in 1..n} :
            t \in [1..n -> [priority : 1..MaxPriority,
                            Regex : {{"a"}, {"b"}, {"a", "b"}},
                            Action : {AllowPublic, AllowSigned, DenyAll}]]} :
           n \in 0..MaxRules}

OrderByPriorityMutant(rows) ==
    {s \in [1..Cardinality(rows) -> rows] :
        /\ \A r \in rows : \E i \in DOMAIN s : s[i] = r
        /\ \A i, j \in DOMAIN s : i < j => s[i].priority >= s[j].priority}

(* SELECT ... FROM bucket_access_rules ... ORDER BY priority ASC: the rows   *)
(* in any order that is ascending in priority.                               *)
OrderByPriority(rows) ==
    {s \in [1..Cardinality(rows) -> rows] :
        /\ \A r \in rows : \E i \in DOMAIN s : s[i] = r
        /\ \A i, j \in DOMAIN s : i < j => s[i].priority <= s[j].priority}

RulesInit ==
    /\ env \in [op : {"rules"}, rows : RuleTables, key : Keys,
                AccessRules : {<< >>}, loaded : {FALSE}, condition : {None}]
    /\ InitStore

(* GetBucketByName: the access-rule query and the append loop *)
LoadAccessRules ==
    /\ ~env.loaded
    /\ \E s \in OrderByPriority(env.rows) :
          env' = [env EXCEPT !.loaded = TRUE,
                             !.AccessRules = [i \in DOMAIN s |->
                                 [id |-> s[i].id, Regex |-> s[i].Regex,
                                  Action |-> s[i].Action]]]
    /\ UNCHANGED <<files, objects, tx, disk, uploads, proc, hist>>

EvaluateKey ==
    /\ env.loaded
    /\ env.condition = None
    /\ env' = [env EXCEPT !.condition = KeyAccessCondition(env.AccessRules, env.key)]
    /\ UNCHANGED <<files, objects, tx, disk, uploads, proc, hist>>

RulesNext == LoadAccessRules \/ EvaluateKey

RulesSpec == RulesInit /\ [][RulesNext]_vars

(* The rows of the table whose regex matches the key *)
MatchingRules == {r \in env.rows : env.key \in r.Regex}

\* C18: GetKeyAccessCondition returns the action of a matching rule with the
\* lowest priority value among the bucket's rules whose regex matches the
\* path, and AllowSigned when no rule matches.
C18_LowestPriorityMatchWins ==
    env.condition # None =>
        IF MatchingRules = {} THEN env.condition = AllowSigned
        ELSE \E r \in MatchingRules :
                /\ \A h \in MatchingRules : r.priority <= h.priority
                /\ env.condition = r.Action

\* C18 witness: two rules match the key, the one inserted later has the lower
\* priority value and another action, and its action was returned.
C18_Witness ==
    /\ env.condition # None
    /\ \E r, h \in MatchingRules :
          /\ r.id > h.id /\ r.priority < h.priority /\ r.Action # h.Action
          /\ env.condition = r.Action

----------------------------------------------------------------------------
(* The authorization resolver middleware.AuthorizeBucketAPIRequest applied   *)
(* to one request. Byte strings are sequences of characters.                *)

(* SHA-256 and SHA-512: collision-free functions of the hashed bytes *)
Sha256(bytes) == <<"sha256", bytes>>
Sha512(bytes) == <<"sha512", bytes>>

(* The cached bucket "b": its id (0 stands for nil), its API keys (by the   *)
(* SHA-512 of the key) and its MAC keys (by selector).                       *)
BucketNames == {"b"}
CachedAPIKeys == {Sha512(<<"k">>)}
CachedMAC == (1 :> [Secret |-> <<"s">>]) @@ (2 :> [Secret |-> <<"t">>])

GetBucketByName(name) == IF name \in BucketNames THEN 1 ELSE 0

(* CachedBucketAPIKeyStore.Get: the header decodes to 64 bytes, and their    *)
(* SHA-512 is a key of the cache.                                            *)
APIKeysGet(b64Key) ==
    /\ b64Key.decodedLen = 64
    /\ b64Key.valid
    /\ Sha512(b64Key.rawKey) \in CachedAPIKeys

Answer(status, wwwAuth, body) ==
    [bucket |-> 0, flags |-> 0, status |-> status, wwwAuth |-> wwwAuth,
     body |-> body]
Authorized(bucket, flags) ==
    [bucket |-> bucket, flags |-> flags, status |-> 0, wwwAuth |-> FALSE,
     body |-> ""]

Concat4(a, b, c, d) == a \o b \o c \o d

(* The two branches of the switch on alg, which differ in the hasher *)
VerifyMAC(bucket, req, digestOf, selectorKey, access) ==
    IF req.sig.len # 32
    THEN Answer(400, FALSE, "invalid signature 'sig' digest length")
    ELSE IF Uint32(selectorKey) \notin DOMAIN CachedMAC
    THEN Answer(401, TRUE, "permission denied (unknown selector)")
    ELSE IF digestOf # req.sig.bytes
    THEN Answer(401, TRUE, "permission denied (invalid signature)")
    ELSE Authorized(bucket, access)

SignedURL(bucket, req, now) ==
    LET selectorKey == Btoui64(req.sel)
        expiry == Btoui64(req.exp)
        access == Btoui64(req.acc)
        secret == CachedMAC[Uint32(selectorKey.count)].Secret
        signed == Concat4(req.path, req.exp, req.acc, secret)
    IN IF Len(req.sel) = 0
       THEN Answer(400, FALSE, "signed objects must contain a selector 'sel'")
       ELSE IF Len(req.exp) = 0
       THEN Answer(400, FALSE, "signed objects must contain an expiry 'exp'")
       ELSE IF Len(req.acc) = 0
       THEN Answer(400, FALSE, "signed objects must contain an access 'acc'")
       ELSE IF selectorKey.err
       THEN Answer(400, FALSE, "invalid selector 'sel' value")
       ELSE IF expiry.err
       THEN Answer(400, FALSE, "invalid expiry 'exp' value")
       ELSE IF now > Int64(Int64(expiry.count) + SignatureClockSkewMs)
       THEN Answer(401, TRUE, "permission denied (access to object has expired)")
       ELSE IF access.err \/ access.count = 0 \/ access.count >= ObjectFlagBoundary_
       THEN Answer(400, FALSE, "invalid access 'acc' value")
       ELSE IF ~req.sig.given
       THEN Answer(400, FALSE, "signed objects must contain a signature 'sig'")
       ELSE IF ~req.sig.valid
       THEN Answer(400, FALSE, "invalid signature 'sig' encoding")
       ELSE IF req.alg = "MAC-SHA256"
       THEN VerifyMAC(bucket, req, Sha256(signed), selectorKey.count, access.count)
       ELSE IF req.alg = "MAC-BLAKE3256"
       THEN VerifyMAC(bucket, req, Blake3(signed), selectorKey.count, access.count)
       ELSE Authorized(bucket, 0)

GetBucketFromRequest(req) ==
    IF Len(req.bucketName) = 0 THEN [bucket |-> 0, status |-> 500, body |-> ""]
    ELSE IF GetBucketByName(req.bucketName) = 0
    THEN [bucket |-> 0, status |-> 404, body |-> "bucket not found"]
    ELSE [bucket |-> GetBucketByName(req.bucketName), status |-> 0, body |-> ""]

AuthorizeBucketAPIRequest(req, now) ==
    LET found == GetBucketFromRequest(req)
    IN IF found.bucket = 0 THEN Answer(found.status, FALSE, found.body)
       ELSE IF req.apiKey.given
       THEN IF ~APIKeysGet(req.apiKey) THEN Answer(401, TRUE, "")
            ELSE Authorized(found.bucket, ObjectOperationFlagsAll)
       ELSE IF Len(req.alg) # 0 THEN SignedURL(found.bucket, req, now)
       ELSE Authorized(found.bucket, 0)

(* The requests: every combination of the query parameters without an API    *)
(* key, and every kind of X-SV-Auth-Key header with signed-URL parameters    *)
(* that are absent, invalid or valid. The values of sig are the digests a    *)
(* signer computes, with a key of the bucket or a foreign one.               *)
Paths == {<<"/", "a">>, <<"/", "a", "1">>}
SelRaws == {<< >>, <<"x">>, <<"1">>, <<"2">>, <<"3">>, <<"1", "7">>}
ExpRaws == {<< >>, <<"x">>, <<"7">>, <<"8">>, <<"1", "8">>, <<"3", "1">>,
            <<"4", "0">>, <<"7", "2">>}
AccRaws == {<< >>, <<"x">>, <<"0">>, <<"3">>, <<"8">>, <<"1", "6">>, <<"7", "2">>}
Algs == {"", "MAC-SHA256", "MAC-BLAKE3256", "MAC-MD5"}
SignedExps == {<<"8">>, <<"1", "8">>}
SignedAccs == {<<"3">>, <<"8">>, <<"7", "2">>}
SignerSecrets == {<<"s">>, <<"z">>}
SignedBytes ==
    {Concat4(p, e, a, s) :
        p \in Paths, e \in SignedExps, a \in SignedAccs, s \in SignerSecrets}
SignerDigests ==
    {Sha256(b) : b \in SignedBytes} \cup {Blake3(b) : b \in SignedBytes}

NoSig == [given |-> FALSE, valid |-> FALSE, len |-> 0, bytes |-> <<"", << >>>>]
Sigs ==
    {NoSig,
     [given |-> TRUE, valid |-> FALSE, len |-> 0, bytes |-> <<"", << >>>>],
     [given |-> TRUE, valid |-> TRUE, len |-> 31, bytes |-> <<"short", << >>>>]}
    \cup {[given |-> TRUE, valid |-> TRUE, len |-> 32, bytes |-> d] :
             d \in SignerDigests}

NoAPIKey == [given |-> FALSE, decodedLen |-> 0, valid |-> FALSE, rawKey |-> << >>]
APIKeyHeaders ==
    {[given |-> TRUE, decodedLen |-> 64, valid |-> TRUE, rawKey |-> <<"k">>],
     [given |-> TRUE, decodedLen |-> 64, valid |-> TRUE, rawKey |-> <<"j">>],
     [given |-> TRUE, decodedLen |-> 63, valid |-> TRUE, rawKey |-> <<"k">>],
     [given |-> TRUE, decodedLen |-> 64, valid |-> FALSE, rawKey |-> <<"k">>]}

SignedRequests ==
    [bucketName : {"b"}, apiKey : {NoAPIKey}, path : Paths, alg : Algs,
     sel : SelRaws, exp : ExpRaws, acc : AccRaws, sig : Sigs]
KeyRequests ==
    [bucketName : {"b"}, apiKey : APIKeyHeaders, path : {<<"/", "a">>},
     alg : Algs, sel : {<< >>, <<"1">>}, exp : {<<"7">>, <<"8">>},
     acc : {<< >>, <<"8">>},
     sig : {NoSig,
            [given |-> TRUE, valid |-> TRUE, len |-> 32,
             bytes |-> Blake3(Concat4(<<"/", "a">>, <<"8">>, <<"8">>, <<"s">>))]}]
StrayRequests ==
    [bucketName : {"", "zz"}, apiKey : {NoAPIKey} \cup APIKeyHeaders,
     path : {<<"/", "a">>}, alg : {"", "MAC-BLAKE3256"}, sel : {<<"1">>},
     exp : {<<"8">>}, acc : {<<"8">>},
     sig : {[given |-> TRUE, valid |-> TRUE, len |-> 32,
             bytes |-> Blake3(Concat4(<<"/", "a">>, <<"8">>, <<"8">>, <<"s">>))]}]

AuthInit ==
    /\ env \in [op : {"auth"},
                req : SignedRequests \cup KeyRequests \cup StrayRequests,
                now : {10}, res : {<< >>}]
    /\ InitStore

Authorize ==
    /\ env.res = << >>
    /\ env' = [env EXCEPT !.res = <<AuthorizeBucketAPIRequest(env.req, env.now)>>]
    /\ UNCHANGED <<files, objects, tx, disk, uploads, proc, hist>>

AuthNext == Authorize

AuthSpec == AuthInit /\ [][AuthNext]_vars

(* The number a string of decimal digits denotes *)
RECURSIVE Denotes(_)
Denotes(raw) ==
    IF raw = << >> THEN 0
    ELSE 10 * Denotes(SubSeq(raw, 1, Len(raw) - 1)) + DigitValue(raw[Len(raw)])

AllDigits(raw) == Len(raw) > 0 /\ \A i \in DOMAIN raw : IsDigit(raw[i])

Answered == env.res # << >>
Result == env.res[1]

(* The request carries a key stored for its bucket *)
StoredKey(req) ==
    /\ req.apiKey.decodedLen = 64 /\ req.apiKey.valid
    /\ req.apiKey.rawKey = <<"k">>

\* C19: when the X-SV-Auth-Key header is present the outcome depends only on
\* the key: a key stored for the bucket yields the bucket with all
\* capabilities plus ObjectAPIKeyAccess, any other key yields 401 with the
\* WWW-Authenticate header, whatever signed-URL parameters the request has.
C19_APIKeyOutcome ==
    (Answered /\ env.req.bucketName \in BucketNames /\ env.req.apiKey.given) =>
        IF StoredKey(env.req)
        THEN /\ Result.bucket = GetBucketByName(env.req.bucketName)
             /\ Result.flags = ObjectOperationFlagsAll + ObjectAPIKeyAccess
        ELSE /\ Result.bucket = 0
             /\ Result.status = 401 /\ Result.wwwAuth

(* The digest the signer of a URL computes for the algorithm alg *)
DigestFor(alg, bytes) == IF alg = "MAC-SHA256" THEN Sha256(bytes) ELSE Blake3(bytes)

(* The signed URL of the request is valid at time now: known algorithm, not  *)
(* expired, sel names a MAC key of the bucket (the map is keyed by u32(sel)) *)
(* and sig is the digest of path || expRaw || accRaw || secret under it.     *)
ValidSignedURL(req, now) ==
    /\ req.alg \in {"MAC-SHA256", "MAC-BLAKE3256"}
    /\ AllDigits(req.exp) /\ ~(now > Denotes(req.exp) + SignatureClockSkewMs)
    /\ AllDigits(req.sel) /\ Uint32(Denotes(req.sel)) \in DOMAIN CachedMAC
    /\ req.sig.given /\ req.sig.valid
    /\ req.sig.bytes =
          DigestFor(req.alg,
                    Concat4(req.path, req.exp, req.acc,
                            CachedMAC[Uint32(Denotes(req.sel))].Secret))

\* C20: a request without the X-SV-Auth-Key header obtains a non-empty
\* capability set only if alg is MAC-SHA256 or MAC-BLAKE3256, the URL is not
\* expired, sel names a MAC key of the bucket and sig equals
\* H(path || expRaw || accRaw || secret); the set is then exactly the bits of
\* acc, and it is empty in every other case that is not rejected.
C20_SignedCapabilities ==
    (Answered /\ ~env.req.apiKey.given /\ Result.bucket # 0 /\ Result.flags # 0) =>
        /\ ValidSignedURL(env.req, env.now)
        /\ AllDigits(env.req.acc)
        /\ BitsOf(Result.flags) = BitsOf(Denotes(env.req.acc))

(* The request with another path, exp and acc and the same alg, sel and sig *)
WithSignedInputs(req, path, exp, acc) ==
    [req EXCEPT !.path = path, !.exp = exp, !.acc = acc]

(* The signature of the request verifies: the resolver grants capabilities *)
Verifies(req, now) ==
    LET res == AuthorizeBucketAPIRequest(req, now)
    IN res.bucket # 0 /\ res.flags # 0

\* C21: with a collision-free hash, a signature that verifies for
\* (path, expRaw, accRaw) under a selector's secret verifies for no other
\* triple: changing any of the signed inputs makes verification fail.
C21_SignatureBindsInputs ==
    (Answered /\ ~env.req.apiKey.given /\ Verifies(env.req, env.now)) =>
        \A p \in Paths, e \in ExpRaws, a \in AccRaws :
            Verifies(WithSignedInputs(env.req, p, e, a), env.now)
                => <<p, e, a>> = <<env.req.path, env.req.exp, env.req.acc>>

(* The request is a signed URL that reaches the expiry test: alg, sel, exp   *)
(* and acc are present, sel is a number and exp is a number a uint64 holds.  *)
ReachesExpiryTest(req) ==
    /\ req.bucketName \in BucketNames /\ ~req.apiKey.given
    /\ Len(req.alg) # 0 /\ Len(req.acc) # 0
    /\ AllDigits(req.sel)
    /\ AllDigits(req.exp) /\ Denotes(req.exp) < 2 ^ Uint64Bits

RejectedAsExpired(res) ==
    /\ res.bucket = 0 /\ res.status = 401
    /\ res.body = "permission denied (access to object has expired)"

\* C22: for every exp value an unsigned 64-bit parameter can take, a
\* signed-URL request is rejected with 401 as expired exactly when
\* now > exp + signatureClockSkewMs in exact integer arithmetic.
C22_ExpiryExact ==
    (Answered /\ ReachesExpiryTest(env.req)) =>
        (RejectedAsExpired(Result)
            <=> env.now > Denotes(env.req.exp) + SignatureClockSkewMs)

(* The request is a signed URL that reaches the test of acc: it passed the   *)
(* presence tests, sel and exp are numbers and the expiry test let it by.    *)
ReachesAccessTest(req, res) ==
    /\ req.bucketName \in BucketNames /\ ~req.apiKey.given
    /\ Len(req.alg) # 0 /\ Len(req.acc) # 0
    /\ AllDigits(req.sel) /\ AllDigits(req.exp)
    /\ ~RejectedAsExpired(res)

AccessRejected(res) ==
    /\ res.bucket = 0 /\ res.status = 400
    /\ res.body = "invalid access 'acc' value"

\* C23: a signed URL's acc is accepted exactly when 0 < acc < boundary, where
\* boundary is the next power of two above the highest capability bit and
\* ObjectOperationFlagsAll = boundary - 1 is the union of all capability bits;
\* a signed URL carries only a subset of {Create, Update, Delete, Read} and
\* never the API-key-access marker.
C23_AccRange ==
    /\ ObjectFlagBoundary_ = 2 * ObjectRead
    /\ ObjectOperationFlagsAll
          = ObjectCreate + ObjectUpdate + ObjectDelete + ObjectRead
    /\ (Answered /\ ReachesAccessTest(env.req, Result)) =>
          (~AccessRejected(Result)
              <=> /\ AllDigits(env.req.acc)
                  /\ 0 < Denotes(env.req.acc)
                  /\ Denotes(env.req.acc) < ObjectFlagBoundary_)
    /\ (Answered /\ ~env.req.apiKey.given /\ Result.bucket # 0) =>
          /\ BitsOf(Result.flags) \subseteq BitsOf(ObjectOperationFlagsAll)
          /\ BitAnd(Result.flags, ObjectAPIKeyAccess) = 0

(* A parameter of the signed URL is missing or malformed: sel or exp is not *)
(* a decimal number, acc is not one between 1 and the boundary, sig is      *)
(* absent or is not base64url.                                              *)
MalformedSignedURL(req) ==
    \/ ~AllDigits(req.sel)
    \/ ~AllDigits(req.exp)
    \/ ~AllDigits(req.acc)
    \/ Denotes(req.acc) = 0 \/ Denotes(req.acc) >= ObjectFlagBoundary_
    \/ ~req.sig.given \/ ~req.sig.valid

\* C32: a signed-URL request (alg present, no API-key header) in which any of
\* sel, exp, acc or sig is missing or malformed is rejected with status 400,
\* whatever the other parameters are, an exp in the past included.
C32_MalformedIs400 ==
    (/\ Answered
     /\ env.req.bucketName \in BucketNames /\ ~env.req.apiKey.given
     /\ Len(env.req.alg) # 0
     /\ MalformedSignedURL(env.req))
        => Result.bucket = 0 /\ Result.status = 400

----------------------------------------------------------------------------
(* MiscHandler.ParseRangeHeader applied to one Range header and one size.    *)
(* A header is a sequence of characters, "bytes=" followed by up to          *)
(* MaxRangeLen characters, or a header with another prefix.                  *)

MaxRangeLen == 4
MaxSize == 3

RangeChars == {"0", "1", "2", "5", "6", "-", "x"}

RECURSIVE SeqsUpTo(_, _)
SeqsUpTo(S, n) ==
    IF n = 0 THEN {<< >>}
    ELSE LET shorter == SeqsUpTo(S, n - 1)
         IN shorter \cup {Append(q, c) : q \in shorter, c \in S}

RangeHeaders ==
    {prefix \o body :
        prefix \in {BytesPrefix, <<"i", "t", "e", "m", "s", "=">>, << >>},
        body \in SeqsUpTo(RangeChars, MaxRangeLen)}

RangeInit ==
    /\ env \in [op : {"range"}, header : RangeHeaders, size : 0..MaxSize,
                res : {<< >>}]
    /\ InitStore

ParseRange ==
    /\ env.res = << >>
    /\ env' = [env EXCEPT !.res = <<ParseRangeHeader(env.header, env.size)>>]
    /\ UNCHANGED <<files, objects, tx, disk, uploads, proc, hist>>

RangeNext == ParseRange

RangeSpec == RangeInit /\ [][RangeNext]_vars

(* The header is bytes=a-b with a and b strings of digits, either possibly   *)
(* empty but not both: the well-formed headers, and the range they ask for   *)
(* of an object of the given size, by the numbers a and b denote.            *)
RangeBody(header) == SubSeq(header, 7, Len(header))
RangeDash(header) ==
    CHOOSE i \in DOMAIN RangeBody(header) : RangeBody(header)[i] = "-"
RangeA(header) == SubSeq(RangeBody(header), 1, RangeDash(header) - 1)
RangeB(header) ==
    SubSeq(RangeBody(header), RangeDash(header) + 1, Len(RangeBody(header)))
WellFormedRange(header) ==
    LET body == RangeBody(header)
    IN /\ HasPrefix(header, BytesPrefix)
       /\ Cardinality({i \in DOMAIN body : body[i] = "-"}) = 1
       /\ \A i \in DOMAIN body : body[i] = "-" \/ IsDigit(body[i])
       /\ Len(body) > 1

Unsatisfiable == [sat |-> FALSE, start |-> 0, length |-> 0]
RequestedRange(header, size) ==
    LET a == Denotes(RangeA(header))
        b == Denotes(RangeB(header))
    IN IF RangeA(header) # << >> /\ RangeB(header) # << >>
       THEN IF a <= b /\ b < size
            THEN [sat |-> TRUE, start |-> a, length |-> b - a + 1]
            ELSE Unsatisfiable
       ELSE IF RangeA(header) # << >>
       THEN IF a < size
            THEN [sat |-> TRUE, start |-> a, length |-> size - a]
            ELSE Unsatisfiable
       ELSE IF 1 <= b /\ b <= size
            THEN [sat |-> TRUE, start |-> size - b, length |-> b]
            ELSE Unsatisfiable

\* C24: ParseRangeHeader(bytes=a-b, size) is satisfiable exactly when both
\* are given and a <= b < size (start a, length b-a+1), only a is given and
\* a < size (start a, length size-a), or only b is given and 1 <= b <= size
\* (start size-b, length b); every other well-formed header is unsatisfiable,
\* and a satisfiable result has length >= 1 and start + length <= size.
C24_RangeSatisfiable ==
    (env.res # << >> /\ WellFormedRange(env.header)) =>
        LET r == env.res[1]
            want == RequestedRange(env.header, env.size)
        IN /\ IF want.sat
              THEN /\ r.err = "nil"
                   /\ r.Start = want.start /\ r.Length = want.length
              ELSE r.err = "unsatisfiable"
           /\ r.err = "nil" => r.Length >= 1 /\ r.Start + r.Length <= env.size

----------------------------------------------------------------------------
(* One client that uploads objects of 0, 1 and 2 bytes to an AllowSigned    *)
(* and an AllowPublic path and downloads them with every combination of     *)
(* If-None-Match, Range and If-Range: absent, the ETag of one of the        *)
(* contents, ranges that are satisfiable, unsatisfiable or do not parse.    *)

DownloadBodies == {<< >>, <<1>>, <<2, 3>>}
DownloadETags == {<< >>} \cup {ETagOf(Blake3(b)) : b \in DownloadBodies \ {<< >>}}
DownloadRanges ==
    {<< >>, <<"i", "t", "e", "m", "s", "=", "0", "-", "0">>}
    \cup {BytesPrefix \o b :
            b \in {<<"0", "-", "0">>, <<"1", "-">>, <<"-", "1">>,
                   <<"0", "-", "1">>, <<"2", "-">>, <<"-", "6", "5">>,
                   <<"x", "-">>, <<"0", "-", "0", "-", "1">>, <<"-">>}}

DownloadEnv ==
    [targets |-> {<<1, "a">>, <<1, "b">>},
     bodies |-> DownloadBodies,
     mimes |-> {None},
     shortReads |-> FALSE,
     uploadAccess |-> {ObjectCreate, ObjectUpdate},
     getAccess |-> {0},
     getHeaders |-> [IfNoneMatch : DownloadETags, Range : DownloadRanges,
                     IfRange : DownloadETags]]

DownloadInit == env = DownloadEnv /\ InitStore

DownloadNext == GateStep(1)

DownloadSpec == DownloadInit /\ [][DownloadNext]_vars

(* A download that found its object and was not answered 304 or 500 *)
Downloaded(r) ==
    r.kind = "GET" /\ r.pc = "done" /\ r.status \in {200, 206, 416}

(* Its Range header is honoured: present, If-Range absent or the ETag *)
RangeApplies(r) ==
    /\ Len(r.headers.Range) # 0
    /\ Len(r.headers.IfRange) = 0 \/ r.headers.IfRange = ETagOf(r.File.Digest)

\* C25: for a GET whose Range header is honoured, an unsatisfiable range
\* yields 416 with Content-Range 'bytes */<size>', Cache-Control 'no-store'
\* and no body; a satisfiable range yields 206 with Content-Range
\* 'bytes <start>-<end>/<size>' and exactly those bytes; a header that fails
\* to parse is ignored and the full object is sent with status 200.
C25_RangeResponses ==
    \A p \in Procs :
        LET r == proc[p]
            size == r.File.Size
            want == RequestedRange(r.headers.Range, size)
        IN (Downloaded(r) /\ RangeApplies(r)) =>
              IF ~WellFormedRange(r.headers.Range)
              THEN /\ r.status = 200 /\ r.sent = r.expect
                   /\ r.ContentRange = << >>
              ELSE IF want.sat
              THEN /\ r.status = 206
                   /\ r.ContentRange =
                         <<"bytes ">> \o FormatUint(want.start) \o <<"-">>
                            \o FormatUint(want.start + want.length - 1)
                            \o <<"/">> \o FormatUint(size)
                   /\ r.sent = SubSeq(r.expect, want.start + 1,
                                      want.start + want.length)
              ELSE /\ r.status = 416
                   /\ r.ContentRange = <<"bytes */">> \o FormatUint(size)
                   /\ r.CacheControl = "no-store"
                   /\ r.sent = << >>

(* A download that passed the access gate and found its object *)
FoundObject(r) == r.kind = "GET" /\ r.pc \in {"getOpen", "done"} /\ r.ETag # << >>

(* If-Range is present and is not the ETag of the object's file *)
IfRangeDiffers(r) ==
    Len(r.headers.IfRange) # 0 /\ r.headers.IfRange # ETagOf(r.File.Digest)

C27_NotModified ==
    \A p \in Procs :
        LET r == proc[p]
        IN (FoundObject(r) /\ r.headers.IfNoneMatch = ETagOf(r.File.Digest)) =>
              /\ r.pc = "done" /\ r.status = 304
              /\ r.sent = << >> /\ ~r.opened
              /\ r.ETag = ETagOf(r.File.Digest)

\* C27 witness: the 304 was given to a request that also carried a
\* satisfiable Range and a matching If-Range.
C27_Witness ==
    \E p \in Procs :
        LET r == proc[p]
        IN /\ FoundObject(r) /\ r.status = 304
           /\ r.headers.IfNoneMatch = ETagOf(r.File.Digest)
           /\ r.headers.Range = BytesPrefix \o <<"0", "-", "1">>
           /\ r.headers.IfRange = r.headers.IfNoneMatch
           /\ r.File.Size = 2

----------------------------------------------------------------------------
(* One client that uploads bodies of 0 to MaxSinglePartSize + 2 bytes, each *)
(* Read of the body stream returning any number of bytes up to the buffer.  *)

SizedBodies ==
    {SubSeq(<<1, 2, 3, 4, 5, 6, 7, 8>>, 1, n) : n \in 0..(MaxSinglePartSize + 2)}

SizeEnv ==
    [targets |-> {<<1, "a">>, <<1, "b">>},
     bodies |-> SizedBodies,
     mimes |-> {None},
     shortReads |-> TRUE,
     uploadAccess |-> {ObjectCreate, ObjectUpdate},
     getAccess |-> {0},
     getHeaders |-> {NoHeaders}]

SizeInit == env = SizeEnv /\ InitStore

SizeNext == GateStep(1)

SizeSpec == SizeInit /\ [][SizeNext]_vars

(* An upload that is answered *)
Uploaded(r) == r.kind = "PUT" /\ r.pc = "done"

\* C28: an upload of n body bytes is rejected with 413 exactly when
\* n > maxSinglePartBytes (n = maxSinglePartBytes succeeds), however the body
\* is split into reads; the partial blob on disk never holds more than
\* maxSinglePartBytes bytes and is removed when 413 is returned.
C28_SinglePartLimit ==
    /\ \A path \in DOMAIN disk : Len(disk[path]) <= MaxSinglePartSize
    /\ \A p \in Procs :
          LET r == proc[p]
              n == Len(r.body)
          IN Uploaded(r) =>
                /\ r.status = 413 => n > MaxSinglePartSize /\ ~Exists(ObjectFilePath(r))
                /\ n > MaxSinglePartSize => r.status \in {413, 500}
                /\ n <= MaxSinglePartSize => r.status \in {201, 200, 401, 500, 503}

\* C28 witness: a body of maxSinglePartBytes + 1 bytes was rejected with 413
\* after an object of exactly maxSinglePartBytes bytes had been stored.
C28_Witness ==
    \E p \in Procs :
        LET r == proc[p]
        IN /\ Uploaded(r) /\ r.status = 413
           /\ Len(r.body) = MaxSinglePartSize + 1
           /\ \E f \in files : f.size = MaxSinglePartSize

----------------------------------------------------------------------------
(* BucketUpload: what the client is told after ObjectOperationConflictError *)

ConflictReturned(r) ==
    r.objectCreateError = Conflict \/ r.objectUpdateError = Conflict

BothConflict(r) ==
    r.objectCreateError = Conflict /\ r.objectUpdateError = Conflict

----------------------------------------------------------------------------
(* BucketUpload: ctx.SetConnectionClose on the error paths *)

(* The upload ended on an error path: any answer other than 201 and 200 *)
ErrorPath(r) == Uploaded(r) /\ r.status \notin {201, 200}

\* C30: every upload request that ends on an error path (any outcome other
\* than 201 or 200) marks the connection to be closed.
C30_ErrorPathsClose ==
    \A p \in Procs : ErrorPath(proc[p]) => proc[p].connClose

----------------------------------------------------------------------------
(* handlers.Bucket.GetBucketByName and nameBucketCache: concurrent callers  *)
(* against an unchanged store.  The store holds the bucket "b" with the MAC *)
(* keys, access rules and API keys of the snapshot used above.              *)

MaxCalls == 3

MACRows == {[selector |-> sel, Secret |-> CachedMAC[sel].Secret] : sel \in DOMAIN CachedMAC}

NoBucket ==
    [id |-> 0, cachedMs |-> 0, MAC |-> {}, AccessRules |-> << >>, APIKeys |-> {}]

(* A CachedBucket filled from the rows that the three loops have read *)
CachedBucket(name, cachedMs, macRows) ==
    [id |-> GetBucketByName(name), cachedMs |-> cachedMs, MAC |-> macRows,
     AccessRules |-> AccessRules(GetBucketByName(name)), APIKeys |-> CachedAPIKeys]

Returns(bucket, err) == [bucket |-> bucket, err |-> err]

(* What the queries of GetBucketByName can come to: sql.ErrNoRows, an error *)
(* of a Query, of a Scan or of a checked rows.Err(), or the snapshot.  The  *)
(* loop over the MAC rows ends when Next returns false, at the last row or  *)
(* at an error of the iteration, and rows.Err() is not read after it: the   *)
(* map then holds the rows read so far.                                     *)
FetchBucket(name) ==
    IF name \notin BucketNames
    THEN {Returns(NoBucket, None), Returns(NoBucket, Failure)}
    ELSE {Returns(NoBucket, Failure)}
         \cup {Returns(CachedBucket(name, t, rows), None) :
                 t \in {1, 2}, rows \in SUBSET MACRows}

IdleCall == [pc |-> "idle", name |-> "", res |-> Returns(NoBucket, None), hit |-> FALSE]

BucketInit ==
    /\ env = [op |-> "bucket", nameBucketCache |-> {}, calls |-> 0,
              call |-> [c \in Procs |-> IdleCall]]
    /\ InitStore

(* nameBucketCache[name] under RLock: a hit returns the cached entry *)
CacheLookup(c) ==
    /\ env.call[c].pc \in {"idle", "returned"}
    /\ env.calls < MaxCalls
    /\ \E name \in BucketNames \cup {"x"} :
        LET hits == {e \in env.nameBucketCache : e.name = name}
        IN env' = [env EXCEPT
                    !.calls = @ + 1,
                    !.call[c] =
                        IF hits # {}
                        THEN [pc |-> "returned", name |-> name, hit |-> TRUE,
                              res |-> Returns((CHOOSE e \in hits : TRUE).bucket, None)]
                        ELSE [IdleCall EXCEPT !.pc = "fetch", !.name = name]]
    /\ UNCHANGED <<files, objects, tx, disk, uploads, proc, hist>>

(* The queries, up to the return of an error or to the complete snapshot *)
Fetch(c) ==
    /\ env.call[c].pc = "fetch"
    /\ \E out \in FetchBucket(env.call[c].name) :
        env' = [env EXCEPT !.call[c] =
                    [@ EXCEPT !.res = out,
                              !.pc = IF out.bucket = NoBucket THEN "returned"
                                     ELSE "insert"]]
    /\ UNCHANGED <<files, objects, tx, disk, uploads, proc, hist>>

(* nameBucketCache[name] = &bucket under Lock, and the return *)
CacheInsert(c) ==
    /\ env.call[c].pc = "insert"
    /\ env' = [env EXCEPT
                !.nameBucketCache =
                    {e \in @ : e.name # env.call[c].name}
                    \cup {[name |-> env.call[c].name, bucket |-> env.call[c].res.bucket]},
                !.call[c].pc = "returned"]
    /\ UNCHANGED <<files, objects, tx, disk, uploads, proc, hist>>

BucketNext == \E c \in Procs : CacheLookup(c) \/ Fetch(c) \/ CacheInsert(c)

BucketSpec == BucketInit /\ [][BucketNext]_vars

(* The snapshot without the time of caching, and the store's content *)
Content(bucket) == [bucket EXCEPT !.cachedMs = 0]
StoreContent(name) == Content(CachedBucket(name, 0, MACRows))

\* C31: for any interleaving of concurrent GetBucketByName calls against an
\* unchanged store, every call that returns a bucket returns a snapshot equal
\* to the store's content for that name, every cache entry equals that
\* content, a call that found the name in the cache returns a cached entry; a
\* missing bucket returns (none, nil), a store error returns the error, and
\* neither inserts a cache entry.
C31_BucketSnapshots ==
    /\ \A e \in env.nameBucketCache :
          e.name \in BucketNames /\ Content(e.bucket) = StoreContent(e.name)
    /\ \A c \in Procs :
          LET call == env.call[c]
          IN call.pc = "returned" =>
                /\ call.res.bucket # NoBucket =>
                      /\ call.res.err = None
                      /\ Content(call.res.bucket) = StoreContent(call.name)
                /\ call.name \notin BucketNames => call.res.bucket = NoBucket
                /\ call.hit => call.res.bucket # NoBucket

----------------------------------------------------------------------------
(* ObjectDownload between GetObjectByKey and os.Open *)

\* C33: while a ReplaceObject runs concurrently, the blob of the file that a
\* download has resolved through GetObjectByKey is still on disk when the
\* download opens it: the blob is not removed between the lookup and os.Open.
C33_ReaderFindsBlob ==
    [][\A p \in Procs :
        LET r == proc[p]
        IN (r.pc = "getOpen" /\ Exists(GetObjectPath(r.bucket, r.File.UID)))
              => Exists(GetObjectPath(r.bucket, r.File.UID))']_vars

----------------------------------------------------------------------------
(* The connection pool of DB in debug mode, and the use that CreateObject,  *)
(* ReplaceObject and a QueryRow of the download path make of it.  free is   *)
(* the number of idle connections, txOpen the state of the connection's     *)
(* transaction; context.Background() never cancels a wait for a connection. *)

MaxOpenConns == 1

IdleWorker == [pc |-> "idle", fn |-> "", dbConn |-> FALSE, err |-> None]

PoolInit ==
    /\ env = [op |-> "pool", free |-> MaxOpenConns, txOpen |-> FALSE, calls |-> 0,
              w |-> [p \in Procs |-> IdleWorker]]
    /\ InitStore

PoolCall(p) ==
    /\ env.w[p].pc = "idle"
    /\ env.calls < MaxCalls
    /\ \E fn \in {"CreateObject", "ReplaceObject", "GetObjectByKey"} :
        env' = [env EXCEPT !.calls = @ + 1,
                           !.w[p] = [IdleWorker EXCEPT !.pc = "Conn", !.fn = fn]]
    /\ UNCHANGED <<files, objects, tx, disk, uploads, proc, hist>>

(* DB.Conn(dbCtx), or the connection that DB.QueryRow takes for itself: it  *)
(* waits while no connection is idle; DB.Conn may also return an error.     *)
Conn(p) ==
    /\ env.w[p].pc = "Conn"
    /\ \/ /\ env.free > 0
          /\ env' = [env EXCEPT
                        !.free = @ - 1,
                        !.w[p].dbConn = TRUE,
                        !.w[p].pc = IF env.w[p].fn = "GetObjectByKey" THEN "Scan"
                                    ELSE "Begin"]
       \/ /\ env.w[p].fn # "GetObjectByKey"
          /\ env' = [env EXCEPT !.w[p].pc = "return", !.w[p].err = Failure]
    /\ UNCHANGED <<files, objects, tx, disk, uploads, proc, hist>>

(* dbConn.ExecContext(dbCtx, "BEGIN IMMEDIATE TRANSACTION"): fails inside a *)
(* transaction that was left open on the connection, or for another reason *)
Begin(p) ==
    /\ env.w[p].pc = "Begin"
    /\ env.w[p].dbConn
    /\ \/ /\ ~env.txOpen
          /\ env' = [env EXCEPT !.txOpen = TRUE, !.w[p].pc = "Statements"]
       \/ env' = [env EXCEPT !.w[p].pc = "return", !.w[p].err = Failure]
    /\ UNCHANGED <<files, objects, tx, disk, uploads, proc, hist>>

(* The statements between BEGIN and COMMIT, all on dbConn: they succeed, or *)
(* one of them fails (DeduplicateOrCreateFile, the constraint or no-row     *)
(* conflict, another statement error) and ROLLBACK is executed.             *)
Statements(p) ==
    /\ env.w[p].pc = "Statements"
    /\ env.w[p].dbConn
    /\ \/ env' = [env EXCEPT !.w[p].pc = "Commit"]
       \/ \E err \in {Conflict, Failure} :
            env' = [env EXCEPT !.txOpen = FALSE, !.w[p].pc = "return",
                               !.w[p].err = err]
    /\ UNCHANGED <<files, objects, tx, disk, uploads, proc, hist>>

(* COMMIT, and ROLLBACK when COMMIT fails *)
CommitOrRollback(p) ==
    /\ env.w[p].pc = "Commit"
    /\ env.w[p].dbConn
    /\ \E err \in {None, Failure} :
        env' = [env EXCEPT !.txOpen = FALSE, !.w[p].pc = "return", !.w[p].err = err]
    /\ UNCHANGED <<files, objects, tx, disk, uploads, proc, hist>>

(* dbConn.Close(), deferred, or the end of Row.Scan: the connection goes    *)
(* back to the pool                                                         *)
CloseMutant(free, dbConn) == free

Close(free, dbConn) == IF dbConn THEN free + 1 ELSE free

Return(p) ==
    /\ env.w[p].pc \in {"return", "Scan"}
    /\ env' = [env EXCEPT !.free = Close(@, env.w[p].dbConn), !.w[p] = IdleWorker]
    /\ UNCHANGED <<files, objects, tx, disk, uploads, proc, hist>>

PoolNext ==
    \E p \in Procs :
        \/ PoolCall(p) \/ Conn(p) \/ Begin(p) \/ Statements(p)
        \/ CommitOrRollback(p) \/ Return(p)

PoolSpec == PoolInit /\ [][PoolNext]_vars

\* C34: every CreateObject and ReplaceObject invocation, on every exit path,
\* has ended the transaction it opened with COMMIT or ROLLBACK when it
\* returns and releases its connection, and executes its statements on that
\* connection; with a pool of one connection no set of concurrent calls
\* deadlocks: while a call is in progress some call can take a step.
C34_ConnectionReleased ==
    /\ \A p \in Procs :
          LET w == env.w[p]
          IN /\ w.pc \in {"Begin", "Statements", "Commit", "Scan"} => w.dbConn
             /\ w.pc \in {"idle", "Conn"} => ~w.dbConn
             /\ (w.pc = "return" /\ w.dbConn) => ~env.txOpen
    /\ env.txOpen => \E p \in Procs : env.w[p].pc \in {"Statements", "Commit"}
    /\ env.free + Cardinality({p \in Procs : env.w[p].dbConn}) = MaxOpenConns
    /\ (\E p \in Procs : env.w[p].pc # "idle") => ENABLED PoolNext

\* C34 witness: one call waits for the connection while the other, having
\* met an error and rolled back, is about to return with the connection.
C34_Witness ==
    \E p, q \in Procs :
        /\ env.w[p].pc = "Conn" /\ env.free = 0
        /\ env.w[q].pc = "return" /\ env.w[q].dbConn
        /\ env.w[q].fn = "ReplaceObject"

----------------------------------------------------------------------------
(* ObjectDownload: the streaming loop of the hijacked connection, for one   *)
(* blob, one readStartByte and readLength and one size of the buffer.       *)

MaxBlob == 3
MaxChunk == 3

(* bufferSlice: the buffer, cut to the bytes that remain *)
SliceLenMutant(bufferLen, bytesRemaining) == bufferLen

SliceLen(bufferLen, bytesRemaining) ==
    IF bytesRemaining < bufferLen THEN bytesRemaining ELSE bufferLen

(* file.ReadAt(b, off) with len(b) = n: the n bytes at off, or an error     *)
(* when the file ends before them (io.EOF); n = 0 reads nothing.            *)
ReadAt(blob, n, off) ==
    IF off + n <= Len(blob)
    THEN [err |-> None, bytes |-> SubSeq(blob, off + 1, off + n)]
    ELSE [err |-> Failure, bytes |-> << >>]

StreamInit ==
    /\ env \in [op : {"stream"},
                blob : {[i \in 1..n |-> i] : n \in 0..MaxBlob},
                readStartByte : 0..MaxBlob, readLength : 0..MaxBlob,
                DownloadStreamingChunkSize : 1..MaxChunk,
                bytesRemaining : 0..MaxBlob, written : {<< >>},
                pc : {"loop"}, reset : {FALSE}]
    /\ env.bytesRemaining = env.readLength
    /\ InitStore

(* One iteration of the loop *)
StreamChunk ==
    /\ env.pc = "loop"
    /\ LET n == SliceLen(env.DownloadStreamingChunkSize, env.bytesRemaining)
           off == Uint64(env.readStartByte + (env.readLength - env.bytesRemaining))
           read == ReadAt(env.blob, n, off)
           remaining == Uint64(env.bytesRemaining - n)
       IN IF read.err # None
          THEN env' = [env EXCEPT !.pc = "done", !.reset = TRUE]
          ELSE env' = [env EXCEPT !.written = Append(@, read.bytes),
                                  !.bytesRemaining = remaining,
                                  !.pc = IF remaining = 0 THEN "done" ELSE "loop"]
    /\ UNCHANGED <<files, objects, tx, disk, uploads, proc, hist>>

StreamNext == StreamChunk

StreamSpec == StreamInit /\ [][StreamNext]_vars /\ WF_vars(StreamNext)

RECURSIVE Flatten(_)
Flatten(chunks) ==
    IF chunks = << >> THEN << >> ELSE Head(chunks) \o Flatten(Tail(chunks))

(* The range to send lies within the blob *)
InBlob == env.readStartByte + env.readLength <= Len(env.blob)

StreamingInvariant ==
    /\ \A i \in DOMAIN env.written :
          Len(env.written[i]) <= env.DownloadStreamingChunkSize
    /\ env.bytesRemaining <= env.readLength
    /\ InBlob =>
          /\ ~env.reset
          /\ Flatten(env.written)
                = SubSeq(env.blob, env.readStartByte + 1,
                         env.readStartByte + env.readLength - env.bytesRemaining)
          /\ env.pc = "done" => env.bytesRemaining = 0
          /\ (env.bytesRemaining = 0 /\ env.readLength > 0) => env.pc = "done"

\* C35: for every start, every length >= 0 and every downloadChunkBytes >= 1
\* the streaming loop terminates after writing exactly the bytes at offsets
\* [start, start+length) of the blob, in order, in chunks of at most
\* downloadChunkBytes; the remaining-bytes counter never underflows and
\* reaches 0 exactly at the end.
C35_StreamingLoop == []StreamingInvariant /\ <>(env.pc = "done")

\* C35 witness: a blob of three bytes was written whole in two chunks, the
\* second shorter than the buffer.
C35_Witness ==
    /\ env.pc = "done" /\ ~env.reset
    /\ env.readStartByte = 0 /\ env.readLength = 3
    /\ env.DownloadStreamingChunkSize = 2
    /\ env.written = << <<1, 2>>, <<3>> >>

----------------------------------------------------------------------------
(* Buckets as isolation units *)

\* C36: an upload (CreateObject or ReplaceObject) issued for bucket B never
\* modifies an objects row of another bucket: every objects row of another
\* bucket is the same after the call's COMMIT as before it, also when that
\* bucket holds an object under the same key.
C36_OtherBucketsUntouched ==
    [][\A p \in Procs :
        (tx.owner = p /\ objects' # objects)
            => \A o \in objects : o.bucketId # proc[p].bucket => o \in objects'
      ]_vars

\* C37: in every reachable state the files row referenced by an object has
\* the bucketId of the object, so that the download path built from the
\* object's bucket and the file's uid names the blob owned by that files row.
C37_FileInObjectsBucket ==
    \A o \in objects : \A f \in files :
        o.fileId = f.id =>
            /\ f.bucketId = o.bucketId
            /\ GetObjectPath(o.bucketId, f.uid) = BlobPath(f)

----------------------------------------------------------------------------
(* ReplaceObject with the content the object already has *)

(* Every objects row that the SELECT of ReplaceObject can return for the    *)
(* request references a file with the digest and size of the upload.        *)
SameContent(r) ==
    LET rows == SelectObjectsForReplace(objects, r.bucket, r.key)
    IN /\ rows # {}
       /\ \A o \in rows :
             \E f \in files : f.id = o.fileId
                                /\ FileMatches(f, Digest(r), r.bytesReceived)

\* C38: ReplaceObject with content identical to the object's current content
\* is a no-op on the file: the statements leave the files row with the same
\* id, uid and refCount (the increment comes before the decrement), COMMIT
\* changes no files row and no blob, and afterwards only the redundant
\* candidate blob is removed while the file's blob stays on disk.
C38_SameContentReplace ==
    [][\A p \in Procs :
        LET r == proc[p]
        IN (r.kind = "PUT" /\ proc'[p] # r) =>
            /\ (r.pc = "ReplaceObject" /\ tx.owner = 0 /\ SameContent(r)) =>
                  /\ proc'[p].pc = "roCommit"
                  /\ tx'.files = files
                  /\ ~proc'[p].isNew /\ proc'[p].orphanedFileUid = 0
                  /\ disk' = disk
            /\ (r.pc = "roCommit" /\ tx.files = files /\ proc'[p].committed) =>
                  /\ files' = files /\ disk' = disk
                  /\ proc'[p].pc = "roRemove"
            /\ (r.pc = "roRemove" /\ r.orphanedFileUid = 0) =>
                  /\ files' = files
                  /\ disk' = OsRemove(disk, ObjectFilePath(r))
                  /\ \A f \in files : Exists(BlobPath(f)) => Exists(BlobPath(f))'
                  /\ proc'[p].pc = "done" /\ proc'[p].status = 200
      ]_vars

\* C38 witness: an upload of the bytes the object already has is about to
\* commit its ReplaceObject; the file has one reference and is unchanged in
\* the transaction, its blob and the candidate blob are on disk.
C38_Witness ==
    \E p \in Procs :
        LET r == proc[p]
        IN /\ r.pc = "roCommit" /\ tx.owner = p /\ tx.files = files
           /\ ~r.isNew /\ r.orphanedFileUid = 0
           /\ Exists(ObjectFilePath(r))
           /\ \E o \in objects, f \in files :
                 /\ o.bucketId = r.bucket /\ o.key = r.key /\ o.fileId = f.id
                 /\ FileMatches(f, Digest(r), r.bytesReceived)
                 /\ f.refCount = 1 /\ Exists(BlobPath(f))

----------------------------------------------------------------------------
(* The conflict of CreateObject followed by the conflict of ReplaceObject *)

(* The objects table has a row for the key in the bucket *)
HasRow(objs, bucket, key) ==
    \E o \in objs : o.bucketId = bucket /\ o.key = key

----------------------------------------------------------------------------
(* Btoui64 on its own: applied to every byte string of up to MaxDigits      *)
(* bytes over a few digits and a non-digit.                                 *)

MaxDigits == 3

BtouiInit ==
    /\ env \in [op : {"btoui"},
                value : UNION {[1..n -> {"0", "1", "6", "9", "x"}] : n \in 0..MaxDigits},
                out : {<< >>}]
    /\ InitStore

ApplyBtoui64 ==
    /\ env.out = << >>
    /\ env' = [env EXCEPT !.out = <<Btoui64(env.value)>>]
    /\ UNCHANGED <<files, objects, tx, disk, uploads, proc, hist>>

BtouiNext == ApplyBtoui64

BtouiSpec == BtouiInit /\ [][BtouiNext]_vars

\* C40: Btoui64 returns the unsigned integer denoted by its ASCII decimal
\* input for every non-empty all-digit input, and an error for empty input
\* and for input containing a non-digit; it never returns a number different
\* from the one the digits denote.
C40_Btoui64Denotes ==
    env.out # << >> =>
        IF AllDigits(env.value)
        THEN ~env.out[1].err /\ env.out[1].count = Denotes(env.value)
        ELSE env.out[1].err

====
